---- MODULE Spec2Model ----
(***************************************************************************)
(* A model of cv-injector-engine.js (CVInjector): the text-to-JSON parser, *)
(* the keyword normaliser, the injection engine, the plain-text exporter,  *)
(* the store-only ZIP writer with its CRC-32, the pipeline, and            *)
(* FileAttacher.                                                           *)
(*                                                                         *)
(* Strings are sequences of characters.  A character is a one-character    *)
(* TLA+ string; a character outside ASCII is written "U+XXXX".             *)
(* A 32-bit word is a pair <<hi, lo>> of 16-bit halves.                    *)
(***************************************************************************)
EXTENDS Integers, Sequences, FiniteSets, TLC

VARIABLES
  pc,       \* the call in progress: its name before it runs, "done" after
  CONFIG,   \* CVInjector.CONFIG
  args,     \* the arguments of the call
  heap,     \* the objects in memory: Documents by reference, or the page
  rand,     \* the outcomes Math.random will produce, already scaled by 8
  result,   \* what the call returned
  console   \* the lines written to console.log

vars == <<pc, CONFIG, args, heap, rand, result, console>>

\* The value of a variable a specification does not use.
None == [none |-> TRUE]

\* F(v), with v computed before F is entered.  (TLC hands an operator its
\* arguments unevaluated; a long loop written with Strict stays shallow.)
Strict(F(_), v) == CHOOSE r \in {F(x) : x \in {v}} : TRUE

(***************************************************************************)
(* Strings                                                                 *)
(***************************************************************************)

UpperAZ == <<"A","B","C","D","E","F","G","H","I","J","K","L","M",
             "N","O","P","Q","R","S","T","U","V","W","X","Y","Z">>

LowerAZ == <<"a","b","c","d","e","f","g","h","i","j","k","l","m",
             "n","o","p","q","r","s","t","u","v","w","x","y","z">>

Digits == {"0","1","2","3","4","5","6","7","8","9"}

\* The case mappings of the ASCII letters, as lookup tables.
LowerOf == [c \in {UpperAZ[i] : i \in 1..26} |-> LowerAZ[CHOOSE i \in 1..26 : UpperAZ[i] = c]]

UpperOf == [c \in {LowerAZ[i] : i \in 1..26} |-> UpperAZ[CHOOSE i \in 1..26 : LowerAZ[i] = c]]

IsUpper(c) == c \in DOMAIN LowerOf

IsLower(c) == c \in DOMAIN UpperOf

LowerChar(c) == IF IsUpper(c) THEN LowerOf[c] ELSE c

UpperChar(c) == IF IsLower(c) THEN UpperOf[c] ELSE c

toLowerCase(s) == [i \in 1..Len(s) |-> LowerChar(s[i])]

toUpperCase(s) == [i \in 1..Len(s) |-> UpperChar(s[i])]

\* \s of a regular expression and the characters trim() removes.
IsSpace(c) == c \in {" ", "\t", "\r", "\n"}

\* \w of a regular expression.
IsWord(c) == IsUpper(c) \/ IsLower(c) \/ c \in Digits \/ c = "_"

RECURSIVE trimStart(_)
trimStart(s) == IF s # <<>> /\ IsSpace(Head(s)) THEN trimStart(Tail(s)) ELSE s

RECURSIVE trimEnd(_)
trimEnd(s) ==
  IF s # <<>> /\ IsSpace(s[Len(s)]) THEN trimEnd(SubSeq(s, 1, Len(s) - 1)) ELSE s

trim(s) == trimEnd(trimStart(s))

\* The offsets (from 0) at which pat occurs in s.
Occurrences(s, pat) ==
  {i \in 0..(Len(s) - Len(pat)) : SubSeq(s, i + 1, i + Len(pat)) = pat}

includes(s, pat) == Occurrences(s, pat) # {}

\* s.indexOf(pat), -1 when pat does not occur.
indexOf(s, pat) ==
  LET at == Occurrences(s, pat)
  IN  IF at = {} THEN -1 ELSE CHOOSE i \in at : \A j \in at : i <= j

endsWith(s, pat) ==
  Len(s) >= Len(pat) /\ SubSeq(s, Len(s) - Len(pat) + 1, Len(s)) = pat

startsWith(s, pat) == Len(s) >= Len(pat) /\ SubSeq(s, 1, Len(pat)) = pat

\* parts.join(sep), computed by halves.
RECURSIVE join(_, _)
join(parts, sep) ==
  IF Len(parts) = 0 THEN <<>>
  ELSE IF Len(parts) = 1 THEN parts[1]
  ELSE LET half == Len(parts) \div 2
       IN  join(SubSeq(parts, 1, half), sep) \o sep
           \o join(SubSeq(parts, half + 1, Len(parts)), sep)

\* s.split(c) for a separator that is one of the characters of seps.
RECURSIVE split(_, _)
split(s, seps) ==
  IF \E i \in 1..Len(s) : s[i] \in seps
    THEN LET i == CHOOSE k \in 1..Len(s) :
                    s[k] \in seps /\ \A j \in 1..(k - 1) : s[j] \notin seps
         IN  <<SubSeq(s, 1, i - 1)>> \o split(SubSeq(s, i + 1, Len(s)), seps)
    ELSE <<s>>

\* The replacement patterns String.prototype.replace expands when the
\* pattern is a string: $$, $&, $` and $'.
RECURSIVE ExpandReplacement(_, _, _, _)
ExpandReplacement(repl, matched, before, after) ==
  IF repl = <<>> THEN <<>>
  ELSE IF Head(repl) = "$" /\ Len(repl) >= 2 /\ repl[2] \in {"$", "&", "`", "'"}
    THEN (CASE repl[2] = "$" -> <<"$">>
            [] repl[2] = "&" -> matched
            [] repl[2] = "`" -> before
            [] repl[2] = "'" -> after)
         \o ExpandReplacement(SubSeq(repl, 3, Len(repl)), matched, before, after)
  ELSE <<Head(repl)>> \o ExpandReplacement(Tail(repl), matched, before, after)

\* s.replace(pat, repl) for a string pat: the first occurrence only.
replace(s, pat, repl) ==
  LET i == indexOf(s, pat) IN
    IF i < 0 THEN s
    ELSE LET before == SubSeq(s, 1, i)
             after  == SubSeq(s, i + Len(pat) + 1, Len(s))
         IN  before \o ExpandReplacement(repl, pat, before, after) \o after

\* array.filter(Boolean) on strings: the non-empty ones, in order.
filterBoolean(parts) == SelectSeq(parts, LAMBDA p : p # <<>>)

(***************************************************************************)
(* CRC-32 (_crc32, _makeCRC32Table)                                        *)
(***************************************************************************)

RECURSIVE BitXor(_, _)
BitXor(a, b) ==
  IF a = 0 THEN b
  ELSE IF b = 0 THEN a
  ELSE (((a % 2) + (b % 2)) % 2) + 2 * BitXor(a \div 2, b \div 2)

\* a ^ b for bytes, tabulated.
XorByte == [a \in 0..255 |-> [b \in 0..255 |-> BitXor(a, b)]]

\* a ^ b for 16-bit halves, byte by byte.
XorHalf(a, b) ==
  XorByte[a \div 256][b \div 256] * 256 + XorByte[a % 256][b % 256]

\* x ^ y on 32-bit words.
XorW(x, y) == <<XorHalf(x[1], y[1]), XorHalf(x[2], y[2])>>

\* x >>> 1 and x >>> 8 on 32-bit words.
Shr1(x) == <<x[1] \div 2, (x[2] \div 2) + (x[1] % 2) * 32768>>

Shr8(x) == <<x[1] \div 256, (x[2] \div 256) + (x[1] % 256) * 256>>

\* 0xEDB88320 and 0xFFFFFFFF.
Polynomial == <<60856, 33568>>

AllOnes == <<65535, 65535>>

\* One turn of the inner loop of _makeCRC32Table.
TableStep(c) == IF c[2] % 2 = 1 THEN XorW(Polynomial, Shr1(c)) ELSE Shr1(c)

\* c after j turns of the inner loop, starting from i.
RECURSIVE TableEntry(_, _)
TableEntry(i, j) ==
  IF j = 0 THEN <<0, i>> ELSE LET c == TableEntry(i, j - 1) IN TableStep(c)

\* With the polynomial of the non-reflected CRC-32, 0x04C11DB7.
MutMakeCRC32Table ==
  LET RECURSIVE E(_, _)
      E(i, j) ==
        IF j = 0 THEN <<0, i>>
        ELSE LET c == E(i, j - 1)
             IN  IF c[2] % 2 = 1 THEN XorW(<<1217, 7607>>, Shr1(c)) ELSE Shr1(c)
  IN  [i \in 0..255 |-> E(i, 8)]

_makeCRC32Table == [i \in 0..255 |-> TableEntry(i, 8)]

\* One turn of the loop of _crc32, with the table it reads.
Crc32Step(table, crc, byte) ==
  XorW(Shr8(crc), table[XorByte[crc[2] % 256][byte]])

\* crc after the bytes lo..hi of data went through the loop of _crc32.
RECURSIVE Crc32Range(_, _, _, _, _)
Crc32Range(table, crc, data, lo, hi) ==
  IF lo > hi THEN crc
  ELSE IF lo = hi THEN Crc32Step(table, crc, data[lo])
  ELSE LET mid == (lo + hi) \div 2
       IN  Strict(LAMBDA c : Crc32Range(table, c, data, mid + 1, hi),
                  Crc32Range(table, crc, data, lo, mid))

\* crc after the first i bytes of data went through the loop of _crc32.
Crc32Loop(data, i) ==
  Strict(LAMBDA d : Crc32Range(_makeCRC32Table, AllOnes, d, 1, i), data)

\* What _crc32(data) returns when this._crc32Table holds table.
Crc32With(table, data) ==
  XorW(Strict(LAMBDA d : Crc32Range(table, AllOnes, d, 1, Len(d)), data), AllOnes)

\* _crc32(data) on an engine whose table is absent or was built by
\* _makeCRC32Table.
_crc32(data) == XorW(Crc32Loop(data, Len(data)), AllOnes)

(***************************************************************************)
(* TextEncoder                                                             *)
(***************************************************************************)

\* The characters U+0020 to U+005F, in order.
AsciiLow ==
  <<" ", "!", "\"", "#", "$", "%", "&", "'", "(", ")", "*",
    "+", ",", "-", ".", "/", "0", "1", "2", "3", "4", "5",
    "6", "7", "8", "9", ":", ";", "<", "=", ">", "?", "@",
    "A", "B", "C", "D", "E", "F", "G", "H", "I", "J", "K",
    "L", "M", "N", "O", "P", "Q", "R", "S", "T", "U", "V",
    "W", "X", "Y", "Z", "[", "\\", "]", "^", "_">>

\* The characters U+0061 to U+007E, in order.
AsciiHigh ==
  <<"a", "b", "c", "d", "e", "f", "g", "h", "i", "j",
    "k", "l", "m", "n", "o", "p", "q", "r", "s", "t",
    "u", "v", "w", "x", "y", "z", "{", "|", "}", "~">>

\* The code points of the characters the model writes: the ASCII ones
\* (but U+0060), and those written "U+XXXX".
CodePoints ==
  [c \in {AsciiLow[i] : i \in DOMAIN AsciiLow} |->
     31 + CHOOSE i \in DOMAIN AsciiLow : AsciiLow[i] = c]
  @@ [c \in {AsciiHigh[i] : i \in DOMAIN AsciiHigh} |->
     96 + CHOOSE i \in DOMAIN AsciiHigh : AsciiHigh[i] = c]
  @@ ("U+0000" :> 0) @@ ("\t" :> 9) @@ ("\n" :> 10) @@ ("\r" :> 13)
  @@ ("U+001F" :> 31) @@ ("U+007F" :> 127)
  @@ ("U+00A2" :> 162) @@ ("U+00C4" :> 196) @@ ("U+00E9" :> 233)
  @@ ("U+00EC" :> 236) @@ ("U+00F1" :> 241) @@ ("U+201A" :> 8218)
  @@ ("U+20AC" :> 8364) @@ ("U+2122" :> 8482) @@ ("U+220F" :> 8719)
  @@ ("U+222B" :> 8747) @@ ("U+1F680" :> 128640)

\* The UTF-8 bytes of one code point.
Utf8(cp) ==
  IF cp < 128 THEN <<cp>>
  ELSE IF cp < 2048 THEN <<192 + (cp \div 64), 128 + (cp % 64)>>
  ELSE IF cp < 65536
    THEN <<224 + (cp \div 4096), 128 + ((cp \div 64) % 64), 128 + (cp % 64)>>
  ELSE <<240 + (cp \div 262144), 128 + ((cp \div 4096) % 64),
         128 + ((cp \div 64) % 64), 128 + (cp % 64)>>

\* textEncoder.encode(s) for a well-formed string s.
encode(s) == join([i \in 1..Len(s) |-> Utf8(CodePoints[s[i]])], <<>>)

(***************************************************************************)
(* _createMinimalZip                                                       *)
(***************************************************************************)

\* The bytes view.setUint16(_, v, true) writes.
Uint16LE(v) == <<v % 256, (v \div 256) % 256>>

\* The bytes view.setUint32(_, v, true) writes, for v below 2^31.
Uint32LE(v) ==
  <<v % 256, (v \div 256) % 256, (v \div 65536) % 256, (v \div 16777216) % 256>>

\* The bytes view.setUint32(_, w, true) writes for a word w = <<hi, lo>>.
WordLE(w) == Uint16LE(w[2]) \o Uint16LE(w[1])

LocalFileSignature == Uint32LE(67324752)

CentralDirectorySignature == Uint32LE(33639248)

EocdSignature == Uint32LE(101010256)

\* localHeader: 30 bytes and the path.
LocalHeader(table, pathBytes, contentBytes) ==
  LocalFileSignature
  \o Uint16LE(20) \o Uint16LE(0) \o Uint16LE(0) \o Uint16LE(0) \o Uint16LE(0)
  \o WordLE(Crc32With(table, contentBytes))
  \o Uint32LE(Len(contentBytes)) \o Uint32LE(Len(contentBytes))
  \o Uint16LE(Len(pathBytes)) \o Uint16LE(0)
  \o pathBytes

\* A mutant of nextOffset that leaves the content out.
MutOffsetHeaderOnly(offset, localHeader, contentBytes) == offset + Len(localHeader)

\* offset += localHeader.length + contentBytes.length
nextOffset(offset, localHeader, contentBytes) ==
  offset + Len(localHeader) + Len(contentBytes)

\* entries and offset after the first loop has read the first n of the
\* pairs Object.entries(files) gives.
RECURSIVE EntriesLoop(_, _, _)
EntriesLoop(table, files, n) ==
  IF n = 0 THEN [entries |-> <<>>, offset |-> 0]
  ELSE Strict(
         LAMBDA prev :
           LET pathBytes    == encode(files[n][1])
               contentBytes == encode(files[n][2])
               localHeader  == LocalHeader(table, pathBytes, contentBytes)
           IN  [entries |->
                  Append(prev.entries,
                         [path |-> files[n][1],
                          pathBytes |-> pathBytes,
                          contentBytes |-> contentBytes,
                          localHeader |-> localHeader,
                          offset |-> prev.offset,
                          crc |-> Crc32With(table, contentBytes)]),
                offset |-> nextOffset(prev.offset, localHeader, contentBytes)],
         EntriesLoop(table, files, n - 1))

\* The central directory header of one entry: 46 bytes and the path.
CentralHeader(entry) ==
  CentralDirectorySignature
  \o Uint16LE(20) \o Uint16LE(20) \o Uint16LE(0) \o Uint16LE(0)
  \o Uint16LE(0) \o Uint16LE(0)
  \o WordLE(entry.crc)
  \o Uint32LE(Len(entry.contentBytes)) \o Uint32LE(Len(entry.contentBytes))
  \o Uint16LE(Len(entry.pathBytes)) \o Uint16LE(0) \o Uint16LE(0)
  \o Uint16LE(0) \o Uint16LE(0)
  \o Uint32LE(0)
  \o Uint32LE(entry.offset)
  \o entry.pathBytes

\* A mutant of the end record that counts 46 bytes for every central header
\* and leaves the paths out.
MutEocdWithoutPaths(count, centralDirSize, offset) ==
  EocdSignature
  \o Uint16LE(0) \o Uint16LE(0)
  \o Uint16LE(count) \o Uint16LE(count)
  \o Uint32LE(46 * count) \o Uint32LE(offset)
  \o Uint16LE(0)

\* The end of central directory record: 22 bytes.
Eocd(count, centralDirSize, offset) ==
  EocdSignature
  \o Uint16LE(0) \o Uint16LE(0)
  \o Uint16LE(count) \o Uint16LE(count)
  \o Uint32LE(centralDirSize) \o Uint32LE(offset)
  \o Uint16LE(0)

DocxMimeType ==
  "application/vnd.openxmlformats-officedocument.wordprocessingml.document"

\* _createMinimalZip(files) when this._crc32Table holds table; files given
\* as the pairs <<path, content>> of Object.entries(files), in its order.
\* The Blob returned: zipBuffer is as long as the parts written into it, one
\* after the other.
CreateMinimalZipWith(table, files) ==
  LET built      == EntriesLoop(table, files, Len(files))
      entries    == built.entries
      centralDir == [i \in 1..Len(entries) |-> CentralHeader(entries[i])]
      centralDirSize == Len(join(centralDir, <<>>))
      eocd       == Eocd(Len(entries), centralDirSize, built.offset)
      zipBuffer  == join([i \in 1..Len(entries) |->
                            entries[i].localHeader \o entries[i].contentBytes], <<>>)
                    \o join(centralDir, <<>>)
                    \o eocd
  IN  [type |-> DocxMimeType, bytes |-> zipBuffer]

\* _createMinimalZip(files) on an engine whose table is absent or was built
\* by _makeCRC32Table.
_createMinimalZip(files) == CreateMinimalZipWith(_makeCRC32Table, files)

(***************************************************************************)
(* CVInjector: configuration and phrase tables                             *)
(***************************************************************************)

\* CONFIG as the source sets it.
DefaultConfig ==
  [MAX_HIGH_PRIO_SKILLS |-> 5, MAX_KEYWORDS_PER_BULLET |-> 3,
   MAX_TOTAL_INJECTIONS |-> 15, ROTATION_ENABLED |-> TRUE]

INJECTION_TEMPLATES ==
  <<
    <<"L","e","v","e","r","a","g","e","d"," ","{","k","w","}"," ","t","o",
      " ","o","p","t","i","m","i","z","e"," ","p","i","p","e","l","i","n",
      "e","s",","," ","a","c","h","i","e","v","i","n","g"," ","{","m","e",
      "t","r","i","c","}",".">>,
    <<"A","p","p","l","i","e","d"," ","{","k","w","}"," ","i","n"," ","A",
      "g","i","l","e"," ","s","p","r","i","n","t","s"," ","f","o","r"," ",
      "s","c","a","l","a","b","l","e"," ","M","L"," ","s","o","l","u","t",
      "i","o","n","s",".">>,
    <<"D","e","m","o","n","s","t","r","a","t","e","d"," ","e","x","p","e",
      "r","t","i","s","e"," ","i","n"," ","{","k","w","}"," ","a","c","r",
      "o","s","s"," ","p","r","o","d","u","c","t","i","o","n"," ","d","e",
      "p","l","o","y","m","e","n","t","s",".">>,
    <<"I","m","p","l","e","m","e","n","t","e","d"," ","{","k","w","}"," ",
      "s","t","r","a","t","e","g","i","e","s"," ","d","r","i","v","i","n",
      "g"," ","{","m","e","t","r","i","c","}"," ","i","m","p","r","o","v",
      "e","m","e","n","t",".">>,
    <<"B","u","i","l","t"," ","{","k","w","}"," ","f","r","a","m","e","w",
      "o","r","k","s"," ","e","n","a","b","l","i","n","g"," ","c","r","o",
      "s","s","-","f","u","n","c","t","i","o","n","a","l"," ","d","e","l",
      "i","v","e","r","y",".">>,
    <<"O","r","c","h","e","s","t","r","a","t","e","d"," ","{","k","w","}",
      " ","i","n","i","t","i","a","t","i","v","e","s"," ","r","e","d","u",
      "c","i","n","g"," ","o","p","e","r","a","t","i","o","n","a","l"," ",
      "o","v","e","r","h","e","a","d"," ","b","y"," ","{","m","e","t","r",
      "i","c","}",".">>
  >>

METRIC_TEMPLATES ==
  <<
    <<"2","0","%"," ","e","f","f","i","c","i","e","n","c","y"," ","g","a",
      "i","n">>,
    <<"3","0","%"," ","c","o","s","t"," ","r","e","d","u","c","t","i","o",
      "n">>,
    <<"4","0","%"," ","f","a","s","t","e","r"," ","d","e","l","i","v","e",
      "r","y">>,
    <<"2","5","%"," ","i","m","p","r","o","v","e","m","e","n","t">>,
    <<"1","5","%"," ","p","r","o","d","u","c","t","i","v","i","t","y"," ",
      "b","o","o","s","t">>,
    <<"3","5","%"," ","o","p","t","i","m","i","z","a","t","i","o","n">>,
    <<"5","0","%"," ","t","i","m","e"," ","s","a","v","i","n","g","s">>,
    <<"4","5","%"," ","e","r","r","o","r"," ","r","e","d","u","c","t","i",
      "o","n">>
  >>

\* The placeholders of the templates.
KwPlaceholder == <<"{","k","w","}">>

MetricPlaceholder == <<"{","m","e","t","r","i","c","}">>

\* The glyph the exporter puts before a bullet, as the source file spells it.
BulletGlyph == <<"U+201A","U+00C4","U+00A2">>

(***************************************************************************)
(* Arrays                                                                  *)
(***************************************************************************)

\* arr.slice(from, to), both within 0..
slice(arr, from, to) == SubSeq(arr, from + 1, IF to < Len(arr) THEN to ELSE Len(arr))

\* arr.includes(x)
arrayIncludes(arr, x) == \E i \in DOMAIN arr : arr[i] = x

\* The elements of arr at the indices of keep, in order.
Pick(arr, keep) ==
  [k \in 1..Cardinality(keep) |->
     arr[CHOOSE i \in keep : Cardinality({j \in keep : j < i}) = k - 1]]

\* [...new Set(arr)]: the first occurrence of every value, compared exactly.
uniq(arr) == Pick(arr, {i \in DOMAIN arr : \A j \in 1..(i - 1) : arr[j] # arr[i]})

(***************************************************************************)
(* parseCVToJSON                                                           *)
(***************************************************************************)

\* The value null.
null == [null |-> TRUE]

Min(S) == CHOOSE x \in S : \A y \in S : x <= y

Max(S) == CHOOSE x \in S : \A y \in S : x >= y

\* The first index from i on that holds no white space, Len(s) + 1 when
\* there is none: where a greedy \s* entered at i stops.
SkipSpaces(s, i) ==
  LET at == {k \in i..Len(s) : ~IsSpace(s[k])}
  IN  IF at = {} THEN Len(s) + 1 ELSE Min(at)

\* The last index of the longest run of characters of cls that starts at i
\* (i - 1 when s[i] is not in cls), for i <= Len(s) + 1.
RunEnd(s, i, cls(_)) ==
  Max({e \in (i - 1)..Len(s) : \A k \in i..e : cls(s[k])})

\* The character classes of the patterns, as the source file holds them.
NameStopClass == {"@", "|", "U+201A", "U+00C4", "U+00A2"}

LocationStripClass == {"|", "U+201A", "U+00C4", "U+00A2"}

RoleSeparatorClass == {"|", "U+201A", "U+00C4", "U+00EC", "-"}

DateDashClass == {"-", "U+201A", "U+00C4", "U+00EC"}

RoleBulletClass ==
  {"U+201A", "U+00C4", "U+00A2", "-", "*", "U+00F1", "U+2122", "U+220F", "U+222B"}

ListBulletClass == {"U+201A", "U+00C4", "U+00A2", "-", "*"}

sectionNames == <<"summary", "experience", "skills", "education", "certifications">>

\* sectionPatterns: every pattern is ^(a1|a2|...)[\s:]*$ with flag i; an
\* alternative is written as its words, which \s* separates.
sectionPatterns ==
  [summary |->
    {<<<<"P","R","O","F","E","S","S","I","O","N","A","L">>, <<"S","U","M","M","A","R","Y">>>>,
     <<<<"S","U","M","M","A","R","Y">>>>,
     <<<<"P","R","O","F","I","L","E">>>>,
     <<<<"O","B","J","E","C","T","I","V","E">>>>},
   experience |->
    {<<<<"E","X","P","E","R","I","E","N","C","E">>>>,
     <<<<"W","O","R","K">>, <<"E","X","P","E","R","I","E","N","C","E">>>>,
     <<<<"E","M","P","L","O","Y","M","E","N","T">>>>,
     <<<<"P","R","O","F","E","S","S","I","O","N","A","L">>, <<"E","X","P","E","R","I","E","N","C","E">>>>},
   skills |->
    {<<<<"S","K","I","L","L","S">>>>,
     <<<<"T","E","C","H","N","I","C","A","L">>, <<"S","K","I","L","L","S">>>>,
     <<<<"C","O","R","E">>, <<"S","K","I","L","L","S">>>>,
     <<<<"K","E","Y">>, <<"S","K","I","L","L","S">>>>},
   education |->
    {<<<<"E","D","U","C","A","T","I","O","N">>>>,
     <<<<"A","C","A","D","E","M","I","C">>>>,
     <<<<"Q","U","A","L","I","F","I","C","A","T","I","O","N","S">>>>},
   certifications |->
    {<<<<"C","E","R","T","I","F","I","C","A","T","I","O","N">>>>,
     <<<<"C","E","R","T","I","F","I","C","A","T","I","O","N","S">>>>,
     <<<<"L","I","C","E","N","S","E">>>>,
     <<<<"L","I","C","E","N","S","E","S">>>>,
     <<<<"C","R","E","D","E","N","T","I","A","L">>>>,
     <<<<"C","R","E","D","E","N","T","I","A","L","S">>>>}]

\* s without the characters of [\s:] at its end.
RECURSIVE StripHeadingTail(_)
StripHeadingTail(s) ==
  IF s # <<>> /\ (IsSpace(s[Len(s)]) \/ s[Len(s)] = ":")
    THEN StripHeadingTail(SubSeq(s, 1, Len(s) - 1))
    ELSE s

\* core is the words, in order, with nothing but white space between them.
MatchesWords(core, words) ==
  IF Len(words) = 1 THEN core = words[1]
  ELSE /\ Len(core) >= Len(words[1]) + Len(words[2])
       /\ startsWith(core, words[1])
       /\ endsWith(core, words[2])
       /\ \A k \in (Len(words[1]) + 1)..(Len(core) - Len(words[2])) : IsSpace(core[k])

\* pattern.test(s) for a pattern of sectionPatterns.
test(pattern, s) ==
  LET core == toUpperCase(StripHeadingTail(s))
  IN  \E words \in pattern : MatchesWords(core, words)

\* The result of s.match(re) for a pattern without the flag g is written as
\* a sequence: empty for null, else the matched text (or its groups) alone.

IsEmailChar(c) == IsWord(c) \/ c \in {".", "-"}

\* Where [\w.-]+\.\w+ entered at j ends, 0 when it does not match: the
\* greedy [\w.-]+ gives back up to the last dot that a \w follows.
EmailDomainEnd(s, j) ==
  LET r    == RunEnd(s, j, IsEmailChar)
      dots == {d \in (j + 1)..(r - 1) : s[d] = "." /\ IsWord(s[d + 1])}
  IN  IF dots = {} THEN 0 ELSE RunEnd(s, Max(dots) + 1, IsWord)

\* s.match(/[\w.-]+@[\w.-]+\.\w+/)
emailMatch(s) ==
  LET starts == {i \in 1..Len(s) :
                   LET e == RunEnd(s, i, IsEmailChar)
                   IN  e >= i /\ e < Len(s) /\ s[e + 1] = "@"
                       /\ EmailDomainEnd(s, e + 2) > 0}
  IN  IF starts = {} THEN <<>>
      ELSE LET i == Min(starts)
           IN  <<SubSeq(s, i, EmailDomainEnd(s, RunEnd(s, i, IsEmailChar) + 2))>>

IsPhoneChar(c) == c \in Digits \/ IsSpace(c) \/ c \in {"-", "(", ")"}

\* s.match(/[\+]?[\d\s\-\(\)]{10,}/)
phoneMatch(s) ==
  LET from(i) == IF s[i] = "+" THEN i + 1 ELSE i
      starts  == {i \in 1..Len(s) : RunEnd(s, from(i), IsPhoneChar) - from(i) + 1 >= 10}
  IN  IF starts = {} THEN <<>>
      ELSE LET i == Min(starts) IN <<SubSeq(s, i, RunEnd(s, from(i), IsPhoneChar))>>

IsSlugChar(c) == IsWord(c) \/ c = "-"

\* s.match(/<literal>[\w-]+/i) for a literal text, given in lower case.
linkMatch(s, literal) ==
  LET starts == {p \in Occurrences(toLowerCase(s), literal) :
                   p + Len(literal) < Len(s) /\ IsSlugChar(s[p + Len(literal) + 1])}
  IN  IF starts = {} THEN <<>>
      ELSE LET p == Min(starts)
           IN  <<SubSeq(s, p + 1, RunEnd(s, p + Len(literal) + 1, IsSlugChar))>>

linkedinMatch(s) == linkMatch(s, <<"l","i","n","k","e","d","i","n",".","c","o","m",
                          "/","i","n","/">>)

githubMatch(s) == linkMatch(s, <<"g","i","t","h","u","b",".","c","o","m","/">>)

Cities ==
  {<<"d","u","b","l","i","n">>,
   <<"l","o","n","d","o","n">>,
   <<"n","e","w"," ","y","o","r","k">>,
   <<"s","a","n"," ","f","r","a","n","c","i","s","c","o">>}

\* /,\s*[A-Z]{2,}\s*$|,\s*\w+\s*,\s*\w+|Dublin|London|New York|San Francisco/i.test(s)
locationTest(s) ==
  \/ \E c \in 1..Len(s) :
       /\ s[c] = ","
       /\ LET p == SkipSpaces(s, c + 1)
              e == RunEnd(s, p, LAMBDA x : IsUpper(x) \/ IsLower(x))
          IN  e - p + 1 >= 2 /\ SkipSpaces(s, e + 1) > Len(s)
  \/ \E c \in 1..Len(s) :
       /\ s[c] = ","
       /\ LET p  == SkipSpaces(s, c + 1)
              e  == RunEnd(s, p, IsWord)
              c2 == SkipSpaces(s, e + 1)
          IN  /\ e >= p
              /\ c2 <= Len(s) /\ s[c2] = ","
              /\ LET q == SkipSpaces(s, c2 + 1) IN q <= Len(s) /\ IsWord(s[q])
  \/ \E city \in Cities : includes(toLowerCase(s), city)

\* s.replace(/[...]/g, '') for a character class.
removeAll(s, cls) == SelectSeq(s, LAMBDA c : c \notin cls)

\* s.replace(/^[...]\s*/, '') for a character class.
stripBullet(s, cls) ==
  IF s # <<>> /\ s[1] \in cls THEN SubSeq(s, SkipSpaces(s, 2), Len(s)) ELSE s

\* The body of the header loop for one line, trimmed.
HeaderStep(personal, trimmed) ==
  LET isName  == /\ personal.name = <<>>
                 /\ Len(trimmed) > 3
                 /\ IsUpper(trimmed[1])
                 /\ \A k \in 1..Len(trimmed) : trimmed[k] \notin NameStopClass
      email    == emailMatch(trimmed)
      phone    == phoneMatch(trimmed)
      linkedin == linkedinMatch(trimmed)
      github   == githubMatch(trimmed)
  IN  IF trimmed = <<>> THEN personal
      ELSE [name     |-> IF isName THEN trimmed ELSE personal.name,
            email    |-> IF email # <<>> THEN email[1] ELSE personal.email,
            phone    |-> IF phone # <<>> THEN trim(phone[1]) ELSE personal.phone,
            linkedin |-> IF linkedin # <<>> THEN linkedin[1] ELSE personal.linkedin,
            github   |-> IF github # <<>> THEN github[1] ELSE personal.github,
            location |-> IF locationTest(trimmed)
                           THEN trim(removeAll(trimmed, LocationStripClass))
                           ELSE personal.location]

\* personal after the header loop has read the first n lines.
RECURSIVE HeaderLoop(_, _, _)
HeaderLoop(personal, headerLines, n) ==
  IF n = 0 THEN personal
  ELSE Strict(LAMBDA p : Strict(LAMBDA trimmed : HeaderStep(p, trimmed),
                                 trim(headerLines[n])),
              HeaderLoop(personal, headerLines, n - 1))

\* s.match(/^(.+?)\s*[|..-]\s*(.+?)(?:\s*[|..-]\s*(.+))?$/) for a trimmed
\* line s: the groups <<1, 2, 3>>, group 3 empty when it took no part.
\* Group 1 is the shortest prefix that white space and a separator follow
\* with text after it; group 2 is the shortest text after that separator
\* that ends the line or that a second separator with text after it follows.
roleMatch(s) ==
  LET splits == {a \in 1..Len(s) :
                   LET p == SkipSpaces(s, a + 1)
                   IN  /\ p <= Len(s) /\ s[p] \in RoleSeparatorClass
                       /\ SkipSpaces(s, p + 1) <= Len(s)}
  IN  IF splits = {} THEN <<>>
      ELSE LET a  == Min(splits)
               q  == SkipSpaces(s, SkipSpaces(s, a + 1) + 1)
               b  == Min({e \in q..Len(s) :
                            \/ e = Len(s)
                            \/ LET p2 == SkipSpaces(s, e + 1)
                               IN  /\ p2 <= Len(s) /\ s[p2] \in RoleSeparatorClass
                                   /\ SkipSpaces(s, p2 + 1) <= Len(s)})
           IN  <<[g1 |-> SubSeq(s, 1, a),
                  g2 |-> SubSeq(s, q, b),
                  g3 |-> IF b = Len(s) THEN <<>>
                         ELSE SubSeq(s, SkipSpaces(s, SkipSpaces(s, b + 1) + 1), Len(s))]>>

\* /^[...]\s/.test(s) with the bullet class of the experience section.
isBullet(s) == Len(s) >= 2 /\ s[1] \in RoleBulletClass /\ IsSpace(s[2])

AllDigits(s, i, j) == j <= Len(s) /\ \A k \in i..j : s[k] \in Digits

\* Where /\d{4}\s*[-..]\s*(Present|\d{4})/i entered at i ends, 0 when it does
\* not match there.
DateEnd(s, i) ==
  IF ~AllDigits(s, i, i + 3) THEN 0
  ELSE LET p == SkipSpaces(s, i + 4)
           r == SkipSpaces(s, p + 1)
       IN  IF ~(p <= Len(s) /\ s[p] \in DateDashClass) THEN 0
           ELSE IF r + 6 <= Len(s)
                   /\ toLowerCase(SubSeq(s, r, r + 6)) = <<"p","r","e","s","e","n","t">>
             THEN r + 6
           ELSE IF AllDigits(s, r, r + 3) THEN r + 3
           ELSE 0

\* s.match(/\d{4}\s*[-..]\s*(Present|\d{4})/i)
dateMatch(s) ==
  LET starts == {i \in 1..Len(s) : DateEnd(s, i) > 0}
  IN  IF starts = {} THEN <<>>
      ELSE <<SubSeq(s, Min(starts), DateEnd(s, Min(starts)))>>

\* The role object a role line starts.
newRole(trimmed) ==
  LET m     == roleMatch(trimmed)
      first == trim(split(trimmed, {"|"})[1])
      date  == dateMatch(trimmed)
  IN  [title   |-> IF m # <<>> THEN m[1].g2 ELSE <<>>,
       company |-> IF m # <<>> /\ m[1].g1 # <<>> THEN m[1].g1 ELSE first,
       dates   |-> IF m # <<>> /\ m[1].g3 # <<>> THEN m[1].g3
                   ELSE IF date # <<>> THEN date[1] ELSE <<>>,
       bullets |-> <<>>]

\* The items a line of the skills section contributes.
skillsOfLine(trimmed) ==
  LET parts == split(stripBullet(trimmed, ListBulletClass), {",", ";"})
      items == [i \in 1..Len(parts) |-> trim(parts[i])]
  IN  SelectSeq(items, LAMBDA x : Len(x) >= 2 /\ Len(x) <= 40)

\* A mutant of PatternStep that forgets the open role at a heading.
MutPatternStepDropsRole(st, section, trimmed) ==
  IF ~test(sectionPatterns[section], trimmed) THEN st
  ELSE [cv |-> [st.cv EXCEPT
                  !.summary = IF st.currentSection = "summary" /\ st.summaryLines # <<>>
                                THEN trim(join(st.summaryLines, <<" ">>)) ELSE @],
        currentRole    |-> null,
        currentSection |-> section,
        summaryLines   |-> <<>>]

\* The body of the inner loop for one pattern: a line the pattern matches
\* closes the section in progress and opens the pattern's section.  (The
\* continue that follows goes on to the next pattern.)
PatternStep(st, section, trimmed) ==
  IF ~test(sectionPatterns[section], trimmed) THEN st
  ELSE LET closeSummary == st.currentSection = "summary" /\ st.summaryLines # <<>>
           closeRole    == st.currentSection = "experience" /\ st.currentRole # null
       IN  [cv |-> [st.cv EXCEPT
                      !.summary = IF closeSummary
                                    THEN trim(join(st.summaryLines, <<" ">>)) ELSE @,
                      !.experience = IF closeRole THEN Append(@, st.currentRole) ELSE @],
            currentRole    |-> IF closeRole THEN null ELSE st.currentRole,
            currentSection |-> section,
            summaryLines   |-> <<>>]

\* The state after the inner loop has tried the first n patterns.
RECURSIVE PatternLoop(_, _, _)
PatternLoop(st, trimmed, n) ==
  IF n = 0 THEN st
  ELSE Strict(LAMBDA before : PatternStep(before, sectionNames[n], trimmed),
              PatternLoop(st, trimmed, n - 1))

\* A mutant of ExperienceStep that puts a finished role before the others.
MutExperienceStepUnshift(st, trimmed) ==
  IF ~isBullet(trimmed) /\ (roleMatch(trimmed) # <<>> \/ dateMatch(trimmed) # <<>>)
    THEN [st EXCEPT
            !.cv.experience = IF st.currentRole # null THEN <<st.currentRole>> \o @ ELSE @,
            !.currentRole = newRole(trimmed)]
  ELSE IF isBullet(trimmed) /\ st.currentRole # null
    THEN [st EXCEPT
            !.currentRole.bullets = Append(@, stripBullet(trimmed, RoleBulletClass))]
  ELSE st

\* The experience branch for one non-empty line.
ExperienceStep(st, trimmed) ==
  IF ~isBullet(trimmed) /\ (roleMatch(trimmed) # <<>> \/ dateMatch(trimmed) # <<>>)
    THEN [st EXCEPT
            !.cv.experience = IF st.currentRole # null THEN Append(@, st.currentRole) ELSE @,
            !.currentRole = newRole(trimmed)]
  ELSE IF isBullet(trimmed) /\ st.currentRole # null
    THEN [st EXCEPT
            !.currentRole.bullets = Append(@, stripBullet(trimmed, RoleBulletClass))]
  ELSE st

\* The content branches for one line, every one of which looks at the
\* section now current.
SummaryStep(st, trimmed) ==
  IF st.currentSection = "summary" /\ trimmed # <<>>
    THEN [st EXCEPT !.summaryLines = Append(@, trimmed)] ELSE st

SkillsStep(st, trimmed) ==
  IF st.currentSection = "skills" /\ trimmed # <<>>
    THEN [st EXCEPT !.cv.skills.hard = @ \o skillsOfLine(trimmed)] ELSE st

\* A mutant of EducationStep without the test for the heading itself.
MutEducationStepKeepsHeading(st, trimmed) ==
  IF st.currentSection = "education" /\ trimmed # <<>> /\ Len(trimmed) > 5
    THEN [st EXCEPT !.cv.education =
            Append(@, [degree |-> trimmed, school |-> <<>>, dates |-> <<>>])]
    ELSE st

EducationStep(st, trimmed) ==
  IF /\ st.currentSection = "education" /\ trimmed # <<>>
     /\ Len(trimmed) > 5 /\ ~test(sectionPatterns.education, trimmed)
    THEN [st EXCEPT !.cv.education =
            Append(@, [degree |-> trimmed, school |-> <<>>, dates |-> <<>>])]
    ELSE st

CertificationsStep(st, trimmed) ==
  IF /\ st.currentSection = "certifications" /\ trimmed # <<>>
     /\ ~test(sectionPatterns.certifications, trimmed)
    THEN [st EXCEPT !.cv.certifications =
            Append(@, stripBullet(trimmed, ListBulletClass))]
    ELSE st

\* The body of the section loop for one line, trimmed: the inner loop, then
\* the content branches in the order of the code.
LineStep(st, trimmed) ==
  Strict(LAMBDA s4 : CertificationsStep(s4, trimmed),
    Strict(LAMBDA s3 : EducationStep(s3, trimmed),
      Strict(LAMBDA s2 : SkillsStep(s2, trimmed),
        Strict(LAMBDA s1 : IF s1.currentSection = "experience" /\ trimmed # <<>>
                             THEN ExperienceStep(s1, trimmed) ELSE s1,
          Strict(LAMBDA s0 : SummaryStep(s0, trimmed),
            PatternLoop(st, trimmed, Len(sectionNames)))))))

\* The state after the section loop has read the first n lines.
RECURSIVE SectionLoop(_, _, _)
SectionLoop(st, lines, n) ==
  IF n = 0 THEN st
  ELSE Strict(LAMBDA before : Strict(LAMBDA trimmed : LineStep(before, trimmed),
                                      trim(lines[n])),
              SectionLoop(st, lines, n - 1))

emptyCV ==
  [personal |-> [name |-> <<>>, location |-> <<>>, email |-> <<>>, phone |-> <<>>,
                 linkedin |-> <<>>, github |-> <<>>],
   summary |-> <<>>,
   experience |-> <<>>,
   skills |-> [hard |-> <<>>, soft |-> <<>>],
   education |-> <<>>,
   certifications |-> <<>>]

\* parseCVToJSON from its second statement on, for a text that passed the
\* guard: the Document returned and what the call wrote to the console.
ParseText(cvText) ==
  LET Finish(st) ==
        LET cv == [st.cv EXCEPT
                     !.experience = IF st.currentRole # null
                                      THEN Append(@, st.currentRole) ELSE @,
                     !.summary = IF st.summaryLines # <<>>
                                   THEN trim(join(st.summaryLines, <<" ">>)) ELSE @,
                     !.skills.hard = uniq(@)]
        IN  [cv  |-> cv,
             log |-> <<[message |-> "[CVInjector] Parsed CV JSON:",
                        name |-> cv.personal.name,
                        roles |-> Len(cv.experience),
                        skills |-> Len(cv.skills.hard)]>>]
      Sections(lines, personal) ==
        Strict(Finish,
               SectionLoop([cv |-> [emptyCV EXCEPT !.personal = personal],
                            currentSection |-> "header",
                            currentRole |-> null,
                            summaryLines |-> <<>>],
                           lines, Len(lines)))
      Header(lines) ==
        Strict(LAMBDA personal : Sections(lines, personal),
               HeaderLoop(emptyCV.personal, slice(lines, 0, 10),
                          Len(slice(lines, 0, 10))))
  IN  Strict(Header, split(cvText, {"\n"}))

\* A mutant of parseCVToJSON without the guard on the text.
MutParseUnguarded(a) == ParseText(IF "cvText" \in DOMAIN a THEN a.cvText ELSE <<>>)

\* parseCVToJSON(cvText), for the argument list a: a record that holds
\* cvText unless the caller passed none.  An absent and an empty text are
\* the falsy ones.
parseCVToJSON(a) ==
  IF "cvText" \notin DOMAIN a \/ a.cvText = <<>>
    THEN [cv |-> null, log |-> <<>>]
    ELSE ParseText(a.cvText)

(***************************************************************************)
(* parseKeywordsToJSON                                                     *)
(***************************************************************************)

\* keywords.a || keywords.b || []: a present array is truthy even when empty.
Group(keywords, a, b) ==
  IF a \in DOMAIN keywords THEN keywords[a]
  ELSE IF b \in DOMAIN keywords THEN keywords[b]
  ELSE <<>>

Tagged(kws, priority, targets) ==
  [i \in 1..Len(kws) |-> [keyword |-> kws[i], priority |-> priority, targets |-> targets]]

parseKeywordsToJSON(keywords) ==
  Tagged(Group(keywords, "highROI", "highPriority"), "high", <<"experience", "skills">>)
  \o Tagged(Group(keywords, "mediumROI", "mediumPriority"), "medium", <<"experience">>)
  \o Tagged(Group(keywords, "lowROI", "lowPriority"), "low", <<"summary">>)
  \o Tagged(Group(keywords, "unclassified", "unclassified"), "medium", <<"experience">>)

(***************************************************************************)
(* injectKeywords                                                          *)
(***************************************************************************)

\* A mutant of the clone: the "copy" is the caller's object itself.
MutAliasClone(h, ref) == [heap |-> h, ref |-> ref]

\* JSON.parse(JSON.stringify(cv)): a new object holding a copy of heap[ref].
JSONClone(h, ref) == [heap |-> Append(h, h[ref]), ref |-> Len(h) + 1]

highPrio(keywords) == SelectSeq(keywords, LAMBDA k : k.priority = "high")

\* A mutant of medPrio that takes the low-priority keywords as well.
MutMedPrioWithLow(keywords) ==
  SelectSeq(keywords, LAMBDA k : k.priority \in {"medium", "low"})

medPrio(keywords) == SelectSeq(keywords, LAMBDA k : k.priority = "medium")

\* A mutant of skillsToAdd without the slice.
MutSkillsToAddUnsliced(keywords, cfg) ==
  SelectSeq(highPrio(keywords), LAMBDA k : arrayIncludes(k.targets, "skills"))

skillsToAdd(keywords, cfg) ==
  slice(SelectSeq(highPrio(keywords), LAMBDA k : arrayIncludes(k.targets, "skills")),
        0, cfg.MAX_HIGH_PRIO_SKILLS)

\* skills.hard, skillsAdded and keywordsCovered after the first i keywords of
\* toAdd went through the forEach of the skills phase.
RECURSIVE SkillsLoop(_, _, _)
SkillsLoop(hard, toAdd, i) ==
  IF i = 0 THEN [hard |-> hard, skillsAdded |-> 0, keywordsCovered |-> <<>>]
  ELSE Strict(
         LAMBDA s :
           IF \E j \in DOMAIN s.hard :
                toLowerCase(s.hard[j]) = toLowerCase(toAdd[i].keyword)
             THEN s
             ELSE [hard |-> Append(s.hard, toAdd[i].keyword),
                   skillsAdded |-> s.skillsAdded + 1,
                   keywordsCovered |-> Append(s.keywordsCovered, toAdd[i].keyword)],
         SkillsLoop(hard, toAdd, i - 1))

experienceKeywords(keywords) ==
  SelectSeq(slice(highPrio(keywords), 0, 3) \o slice(medPrio(keywords), 0, 2),
            LAMBDA k : arrayIncludes(k.targets, "experience"))

\* A mutant of find: a keyword already used is offered again.
MutFindIgnoringUsed(pool, usedKeywords, bulletLower) ==
  LET ok == {i \in DOMAIN pool : ~includes(bulletLower, toLowerCase(pool[i].keyword))}
  IN  IF ok = {} THEN 0 ELSE CHOOSE i \in ok : \A j \in ok : i <= j

\* experienceKeywords.find(...): the index of the first keyword of the pool
\* that is not yet used and does not occur in the bullet; 0 for undefined.
findKeyword(pool, usedKeywords, bulletLower) ==
  LET ok == {i \in DOMAIN pool :
               /\ toLowerCase(pool[i].keyword) \notin usedKeywords
               /\ ~includes(bulletLower, toLowerCase(pool[i].keyword))}
  IN  IF ok = {} THEN 0 ELSE CHOOSE i \in ok : \A j \in ok : i <= j

\* injectedPhrase.toLowerCase().replace(/\.$/, '')
lowerWithoutFinalPeriod(phrase) ==
  LET low == toLowerCase(phrase)
  IN  IF endsWith(low, <<".">>) THEN SubSeq(low, 1, Len(low) - 1) ELSE low

\* A mutant of BulletStep that takes the first template every time.
MutBulletStepFirstTemplate(st, bullet, pool, rnd, cfg) ==
  IF st.totalInjections >= cfg.MAX_TOTAL_INJECTIONS
    THEN [st EXCEPT !.bullets = Append(@, bullet)]
  ELSE
    LET k == findKeyword(pool, st.usedKeywords, toLowerCase(bullet)) IN
    IF k = 0 THEN [st EXCEPT !.bullets = Append(@, bullet)]
    ELSE
      LET kw == pool[k]
          metric == METRIC_TEMPLATES[rnd[st.draws + 1] + 1]
          template == INJECTION_TEMPLATES[1]
          injectedPhrase ==
            replace(replace(template, KwPlaceholder, kw.keyword), MetricPlaceholder, metric)
          enhanced ==
            IF endsWith(bullet, <<".">>)
              THEN SubSeq(bullet, 1, Len(bullet) - 1) \o <<",", " ">>
                   \o lowerWithoutFinalPeriod(injectedPhrase) \o <<".">>
              ELSE bullet \o <<" ">> \o injectedPhrase
      IN  [st EXCEPT !.bullets = Append(@, enhanced),
                     !.draws = @ + 1,
                     !.templateIdx = @ + 1,
                     !.usedKeywords = @ \cup {toLowerCase(kw.keyword)},
                     !.bulletsModified = @ + 1,
                     !.totalInjections = @ + 1,
                     !.keywordsCovered = Append(@, kw.keyword)]

\* A mutant of BulletStep that lets the draw pick the template as well.
MutBulletStepDrawnTemplate(st, bullet, pool, rnd, cfg) ==
  IF st.totalInjections >= cfg.MAX_TOTAL_INJECTIONS
    THEN [st EXCEPT !.bullets = Append(@, bullet)]
  ELSE
    LET k == findKeyword(pool, st.usedKeywords, toLowerCase(bullet)) IN
    IF k = 0 THEN [st EXCEPT !.bullets = Append(@, bullet)]
    ELSE
      LET kw == pool[k]
          metric == METRIC_TEMPLATES[rnd[st.draws + 1] + 1]
          template == INJECTION_TEMPLATES[(rnd[st.draws + 1] % Len(INJECTION_TEMPLATES)) + 1]
          injectedPhrase ==
            replace(replace(template, KwPlaceholder, kw.keyword), MetricPlaceholder, metric)
          enhanced ==
            IF endsWith(bullet, <<".">>)
              THEN SubSeq(bullet, 1, Len(bullet) - 1) \o <<",", " ">>
                   \o lowerWithoutFinalPeriod(injectedPhrase) \o <<".">>
              ELSE bullet \o <<" ">> \o injectedPhrase
      IN  [st EXCEPT !.bullets = Append(@, enhanced),
                     !.draws = @ + 1,
                     !.templateIdx = @ + 1,
                     !.usedKeywords = @ \cup {toLowerCase(kw.keyword)},
                     !.bulletsModified = @ + 1,
                     !.totalInjections = @ + 1,
                     !.keywordsCovered = Append(@, kw.keyword)]

\* The body of the map callback for one bullet.  st carries the counters, the
\* template index, the used keywords and the number of Math.random calls
\* made so far; bullets is the array map is building.
BulletStep(st, bullet, pool, rnd, cfg) ==
  IF st.totalInjections >= cfg.MAX_TOTAL_INJECTIONS
    THEN [st EXCEPT !.bullets = Append(@, bullet)]
  ELSE
    LET k == findKeyword(pool, st.usedKeywords, toLowerCase(bullet)) IN
    IF k = 0 THEN [st EXCEPT !.bullets = Append(@, bullet)]
    ELSE
      LET kw == pool[k]
          metric == METRIC_TEMPLATES[rnd[st.draws + 1] + 1]
          template == INJECTION_TEMPLATES[(st.templateIdx % Len(INJECTION_TEMPLATES)) + 1]
          injectedPhrase ==
            replace(replace(template, KwPlaceholder, kw.keyword), MetricPlaceholder, metric)
          enhanced ==
            IF endsWith(bullet, <<".">>)
              THEN SubSeq(bullet, 1, Len(bullet) - 1) \o <<",", " ">>
                   \o lowerWithoutFinalPeriod(injectedPhrase) \o <<".">>
              ELSE bullet \o <<" ">> \o injectedPhrase
      IN  [st EXCEPT !.bullets = Append(@, enhanced),
                     !.draws = @ + 1,
                     !.templateIdx = @ + 1,
                     !.usedKeywords = @ \cup {toLowerCase(kw.keyword)},
                     !.bulletsModified = @ + 1,
                     !.totalInjections = @ + 1,
                     !.keywordsCovered = Append(@, kw.keyword)]

\* st after the first i bullets of an entry went through the map callback.
RECURSIVE BulletsLoop(_, _, _, _, _, _)
BulletsLoop(st, bullets, i, pool, rnd, cfg) ==
  IF i = 0 THEN [st EXCEPT !.bullets = <<>>]
  ELSE Strict(LAMBDA s : BulletStep(s, bullets[i], pool, rnd, cfg),
              BulletsLoop(st, bullets, i - 1, pool, rnd, cfg))

\* A mutant of remainingHigh that offers used keywords again.
MutRemainingHighIgnoringUsed(keywords, usedKeywords) ==
  SelectSeq(highPrio(keywords), LAMBDA k : arrayIncludes(k.targets, "experience"))

\* The high-priority experience keywords not yet used.
remainingHigh(keywords, usedKeywords) ==
  SelectSeq(highPrio(keywords),
            LAMBDA k : /\ arrayIncludes(k.targets, "experience")
                       /\ toLowerCase(k.keyword) \notin usedKeywords)

\* A mutant of NewBulletStep that counts the new bullet as one injection.
MutNewBulletStepCountsOne(st, expIdx, keywords, rnd) ==
  LET remaining == remainingHigh(keywords, st.usedKeywords) IN
  IF Len(remaining) >= 2 /\ expIdx = 0 /\ st.newBulletsCreated < 2
    THEN
      LET kws == slice(remaining, 0, 2)
          metric == METRIC_TEMPLATES[rnd[st.draws + 1] + 1]
          newBullet ==
            <<"I","m","p","l","e","m","e","n","t","e","d"," ">>
            \o join([i \in 1..Len(kws) |-> kws[i].keyword], <<" ","a","n","d"," ">>)
            \o <<" ","s","o","l","u","t","i","o","n","s",","," ","a","c","h",
              "i","e","v","i","n","g"," ">>
            \o metric
      IN  [st EXCEPT !.bullets = Append(@, newBullet),
                     !.draws = @ + 1,
                     !.usedKeywords = @ \cup {toLowerCase(kws[i].keyword) : i \in 1..Len(kws)},
                     !.keywordsCovered = @ \o [i \in 1..Len(kws) |-> kws[i].keyword],
                     !.newBulletsCreated = @ + 1,
                     !.totalInjections = @ + 1]
    ELSE st

\* The tail of the forEach callback: a new bullet for the first entry.
NewBulletStep(st, expIdx, keywords, rnd) ==
  LET remaining == remainingHigh(keywords, st.usedKeywords) IN
  IF Len(remaining) >= 2 /\ expIdx = 0 /\ st.newBulletsCreated < 2
    THEN
      LET kws == slice(remaining, 0, 2)
          metric == METRIC_TEMPLATES[rnd[st.draws + 1] + 1]
          newBullet ==
            <<"I","m","p","l","e","m","e","n","t","e","d"," ">>
            \o join([i \in 1..Len(kws) |-> kws[i].keyword], <<" ","a","n","d"," ">>)
            \o <<" ","s","o","l","u","t","i","o","n","s",","," ","a","c","h",
              "i","e","v","i","n","g"," ">>
            \o metric
      IN  [st EXCEPT !.bullets = Append(@, newBullet),
                     !.draws = @ + 1,
                     !.usedKeywords = @ \cup {toLowerCase(kws[i].keyword) : i \in 1..Len(kws)},
                     !.keywordsCovered = @ \o [i \in 1..Len(kws) |-> kws[i].keyword],
                     !.newBulletsCreated = @ + 1,
                     !.totalInjections = @ + 2]
    ELSE st

\* st and the experience array after the first n entries went through the
\* forEach callback.
RECURSIVE ExperienceLoop(_, _, _, _, _, _)
ExperienceLoop(st, experience, n, keywords, rnd, cfg) ==
  IF n = 0 THEN [st |-> st, experience |-> <<>>]
  ELSE Strict(
         LAMBDA prev :
           Strict(LAMBDA s :
                    [st |-> s,
                     experience |->
                       Append(prev.experience, [experience[n] EXCEPT !.bullets = s.bullets])],
                  NewBulletStep(
                    BulletsLoop(prev.st, experience[n].bullets, Len(experience[n].bullets),
                                experienceKeywords(keywords), rnd, cfg),
                    n - 1, keywords, rnd)),
         ExperienceLoop(st, experience, n - 1, keywords, rnd, cfg))

\* options.locationOverride || null; the empty string stands for null, both
\* being falsy.
locationOverride(options) ==
  IF "locationOverride" \in DOMAIN options /\ options.locationOverride # <<>>
    THEN options.locationOverride
    ELSE <<>>

\* injectKeywords(cv, keywords, options) on the object heap[cv]: the heap
\* after the call, the reference and the stats returned, the number of
\* Math.random calls made.  elapsed is what performance.now() measured.
injectKeywords(h, cv, keywords, options, rnd, cfg, elapsed) ==
  LET clone == JSONClone(h, cv)
      injectedCV == clone.heap[clone.ref]
      skills == SkillsLoop(injectedCV.skills.hard, skillsToAdd(keywords, cfg),
                           Len(skillsToAdd(keywords, cfg)))
      st0 == [bullets |-> <<>>, draws |-> 0, templateIdx |-> 0, usedKeywords |-> {},
              bulletsModified |-> 0, newBulletsCreated |-> 0, totalInjections |-> 0,
              keywordsCovered |-> skills.keywordsCovered]
      exp == ExperienceLoop(st0, injectedCV.experience, Len(injectedCV.experience),
                            keywords, rnd, cfg)
      stats == [skillsAdded |-> skills.skillsAdded,
                bulletsModified |-> exp.st.bulletsModified,
                newBulletsCreated |-> exp.st.newBulletsCreated,
                totalInjections |-> exp.st.totalInjections,
                keywordsCovered |-> exp.st.keywordsCovered,
                timing |-> elapsed]
      final == [injectedCV EXCEPT
                  !.skills.hard = uniq(skills.hard),
                  !.experience = exp.experience,
                  !.personal.location =
                    IF locationOverride(options) # <<>> THEN locationOverride(options) ELSE @]
  IN  [heap |-> [clone.heap EXCEPT ![clone.ref] = final],
       cv |-> clone.ref,
       stats |-> stats,
       draws |-> exp.st.draws,
       log |-> [message |-> "[CVInjector] Injection complete:", stats |-> stats]]

(***************************************************************************)
(* exportToDocxText                                                        *)
(***************************************************************************)

\* A mutant of ExperienceLines that renders every bullet.
MutExperienceLinesAllBullets(exp) ==
  <<exp.company \o <<" ","|"," ">> \o exp.title>>
  \o (IF exp.dates # <<>> THEN <<exp.dates>> ELSE <<>>)
  \o [i \in 1..Len(exp.bullets) |-> BulletGlyph \o <<" ">> \o exp.bullets[i]]
  \o <<<<>>>>

\* The lines the forEach callback pushes for one experience entry.
ExperienceLines(exp) ==
  <<exp.company \o <<" ","|"," ">> \o exp.title>>
  \o (IF exp.dates # <<>> THEN <<exp.dates>> ELSE <<>>)
  \o [i \in 1..Len(slice(exp.bullets, 0, 6)) |-> BulletGlyph \o <<" ">> \o exp.bullets[i]]
  \o <<<<>>>>

\* The lines pushed for the first n experience entries.
RECURSIVE AllExperienceLines(_, _)
AllExperienceLines(experience, n) ==
  IF n = 0 THEN <<>>
  ELSE AllExperienceLines(experience, n - 1) \o ExperienceLines(experience[n])

\* The array lines of exportToDocxText, before the join.
DocxTextLines(cv) ==
  <<toUpperCase(cv.personal.name)>>
  \o <<join(filterBoolean(<<cv.personal.location, cv.personal.email, cv.personal.phone>>),
               <<" ","|"," ">>)>>
  \o (IF cv.personal.linkedin # <<>> \/ cv.personal.github # <<>>
        THEN <<join(filterBoolean(<<cv.personal.linkedin, cv.personal.github>>),
                       <<" ","|"," ">>)>>
        ELSE <<>>)
  \o <<<<>>>>
  \o (IF cv.summary # <<>>
        THEN <<<<"P","R","O","F","E","S","S","I","O","N","A","L"," ","S",
                  "U","M","M","A","R","Y">>,
               cv.summary, <<>>>>
        ELSE <<>>)
  \o (IF Len(cv.experience) # 0
        THEN <<<<"E","X","P","E","R","I","E","N","C","E">>>>
             \o AllExperienceLines(cv.experience, Len(cv.experience))
        ELSE <<>>)
  \o (IF Len(cv.skills.hard) # 0
        THEN <<<<"S","K","I","L","L","S">>,
               join(cv.skills.hard, <<","," ">>), <<>>>>
        ELSE <<>>)
  \o (IF Len(cv.education) # 0
        THEN <<<<"E","D","U","C","A","T","I","O","N">>>>
             \o [i \in 1..Len(cv.education) |-> cv.education[i].degree]
             \o <<<<>>>>
        ELSE <<>>)
  \o (IF Len(cv.certifications) # 0
        THEN <<<<"C","E","R","T","I","F","I","C","A","T","I","O","N","S">>,
               join(cv.certifications, <<","," ">>)>>
        ELSE <<>>)

exportToDocxText(cv) == join(DocxTextLines(cv), <<"\n">>)

\* A mutant of BulletsAfterSlice: what splice(0, 6) would leave.
MutBulletsAfterSplice(bullets) == SubSeq(bullets, 7, Len(bullets))

\* exp.bullets after exp.bullets.slice(0, 6): slice copies, and leaves the
\* array it is called on as it was.
BulletsAfterSlice(bullets) == bullets

\* The Document after exportToDocxText(cv) returned.  The function pushes
\* onto its own array lines; of the Document it reads fields, and calls
\* forEach, join and slice on its arrays.
DocumentAfterExport(cv) ==
  [cv EXCEPT !.experience =
     [i \in 1..Len(cv.experience) |->
        [cv.experience[i] EXCEPT !.bullets = BulletsAfterSlice(cv.experience[i].bullets)]]]

(***************************************************************************)
(* exportForPDFGenerator                                                   *)
(***************************************************************************)

\* What the map callback returns for one experience entry.
PdfExperienceBlock(exp) ==
  join(<<exp.company \o <<" ","|"," ">> \o exp.title>>
       \o (IF exp.dates # <<>> THEN <<exp.dates>> ELSE <<>>)
       \o [i \in 1..Len(exp.bullets) |-> BulletGlyph \o <<" ">> \o exp.bullets[i]],
       <<"\n">>)

exportForPDFGenerator(cv) ==
  [contact |->
     [name |-> cv.personal.name,
      contactLine |->
        join(filterBoolean(<<cv.personal.phone, cv.personal.email, cv.personal.location>>),
             <<" ","|"," ">>),
      linksLine |->
        join(filterBoolean(<<cv.personal.linkedin, cv.personal.github>>), <<" ","|"," ">>)],
   summary |-> cv.summary,
   experience |->
     join([i \in 1..Len(cv.experience) |-> PdfExperienceBlock(cv.experience[i])],
          <<"\n","\n">>),
   skills |-> join(cv.skills.hard, <<","," ">>),
   education |-> join([i \in 1..Len(cv.education) |-> cv.education[i].degree], <<"\n">>),
   certifications |-> join(cv.certifications, <<","," ">>)]

(***************************************************************************)
(* fullInjectionPipeline                                                   *)
(***************************************************************************)

\* A mutant of matchedKeywords that looks for the keyword as it is written.
MutMatchedAsWritten(allKeywords, cvLower) ==
  SelectSeq(allKeywords, LAMBDA kw : includes(cvLower, kw))

\* A mutant of matchedKeywords that lists a matched text once.
MutMatchedOnce(allKeywords, cvLower) ==
  uniq(SelectSeq(allKeywords, LAMBDA kw : includes(cvLower, toLowerCase(kw))))

\* allKeywords.filter(kw => cvLower.includes(kw.toLowerCase()))
matchedKeywords(allKeywords, cvLower) ==
  SelectSeq(allKeywords, LAMBDA kw : includes(cvLower, toLowerCase(kw)))

\* A mutant of matchScore that rounds down.
MutScoreFloor(matched, allKeywords) ==
  IF Len(allKeywords) > 0 THEN (100 * Len(matched)) \div Len(allKeywords) ELSE 0

\* Math.round((matched.length / allKeywords.length) * 100), or 0 for no
\* keywords.  Math.round takes a half up; the quotient is a half only for
\* a length that is a multiple of 8, where the division is exact.
matchScore(matched, allKeywords) ==
  IF Len(allKeywords) > 0
    THEN (200 * Len(matched) + Len(allKeywords)) \div (2 * Len(allKeywords))
    ELSE 0

\* fullInjectionPipeline(cvText, keywords, options) for the argument list a
\* (a record without the arguments the caller left out): the heap after the
\* call, what the promise settles to, the number of Math.random calls made
\* and the console lines.  inner and outer are what performance.now()
\* measured inside injectKeywords and over the whole call.  A call without
\* keywords throws in parseKeywordsToJSON and the promise is rejected.
fullInjectionPipeline(a, rnd, cfg, inner, outer) ==
  LET start   == [message |-> "[CVInjector] Starting full injection pipeline"]
      options == IF "options" \in DOMAIN a THEN a.options ELSE [n \in {} |-> n]
      \* step 5 and the return
      AfterExport(parsed, inj, docxText) ==
        LET keywordsJSON == parseKeywordsToJSON(a.keywords)
            cvLower      == toLowerCase(docxText)
            allKeywords  == [i \in 1..Len(keywordsJSON) |-> keywordsJSON[i].keyword]
            matched      == matchedKeywords(allKeywords, cvLower)
            score        == matchScore(matched, allKeywords)
        IN  [heap |-> inj.heap,
             result |->
               [success |-> TRUE,
                cvJSON |-> inj.cv,
                cvText |-> docxText,
                pdfSections |-> exportForPDFGenerator(inj.heap[inj.cv]),
                stats |-> inj.stats,
                matchScore |-> score,
                matched |-> matched,
                missing |-> SelectSeq(allKeywords,
                                      LAMBDA kw : ~includes(cvLower, toLowerCase(kw))),
                timing |-> outer,
                tailoredCV |-> docxText],
             draws |-> inj.draws,
             log |-> <<start>> \o parsed.log \o <<inj.log>>
                     \o <<[message |-> "[CVInjector] Pipeline complete",
                           timing |-> outer, matchScore |-> score]>>]
      \* step 4
      AfterInject(parsed, inj) ==
        Strict(LAMBDA docxText : AfterExport(parsed, inj, docxText),
               exportToDocxText(inj.heap[inj.cv]))
      \* the check of step 1, steps 2 and 3
      AfterParse(parsed) ==
        IF parsed.cv = null
          THEN [heap |-> <<>>,
                result |-> [success |-> FALSE, error |-> "Failed to parse CV"],
                draws |-> 0,
                log |-> <<start>> \o parsed.log]
        ELSE IF "keywords" \notin DOMAIN a
          THEN [heap |-> <<parsed.cv>>,
                result |-> [rejected |-> "TypeError"],
                draws |-> 0,
                log |-> <<start>> \o parsed.log]
        ELSE Strict(LAMBDA inj : AfterInject(parsed, inj),
                    injectKeywords(<<parsed.cv>>, 1, parseKeywordsToJSON(a.keywords),
                                   options, rnd, cfg, inner))
  IN  Strict(AfterParse, parseCVToJSON(a))

(***************************************************************************)
(* validateATSCompatibility                                                *)
(***************************************************************************)

\* The characters ^ and $ take for a line end under the flag m.
IsLineTerminator(c) == c \in {"\n", "\r", "U+2028", "U+2029"}

AtLineStart(s, i) == i = 1 \/ IsLineTerminator(s[i - 1])

AtLineEnd(s, i) == i = Len(s) + 1 \/ IsLineTerminator(s[i])

\* The bullet class of the two patterns, as the source file holds it.
ValidateBulletClass == {"-", "U+201A", "U+00C4", "U+00A2", "*"}

\* ([A-Z][a-z]+\s*){4,}$ entered at i after n turns of the group: a turn
\* takes a capital, the lower-case run after it and white space; from the
\* fourth turn on the white space may stop at any line end within it.
RECURSIVE StuffedWords(_, _, _)
StuffedWords(s, i, n) ==
  IF i + 1 <= Len(s) /\ IsUpper(s[i]) /\ IsLower(s[i + 1])
    THEN LET e == RunEnd(s, i + 1, IsLower)
             w == SkipSpaces(s, e + 1)
         IN  \/ n + 1 >= 4 /\ \E q \in (e + 1)..w : AtLineEnd(s, q)
             \/ StuffedWords(s, w, n + 1)
    ELSE FALSE

\* /^[...]\s*([A-Z][a-z]+\s*){4,}$/gm.test(s)
bulletStuffing(s) ==
  \E p \in 1..Len(s) :
    /\ AtLineStart(s, p)
    /\ s[p] \in ValidateBulletClass
    /\ StuffedWords(s, SkipSpaces(s, p + 1), 0)

\* s.match(/SKILLS[\s\S]*?(?=\n(?:EDUCATION|CERTIFICATIONS|$))/i): from the
\* first SKILLS to the first line feed after it that EDUCATION,
\* CERTIFICATIONS or the end of the text follows.
skillsSection(s) ==
  LET lower == toLowerCase(s)
      at    == Occurrences(lower, <<"s","k","i","l","l","s">>)
      Stops(p) ==
        {q \in (p + 6)..Len(s) :
           /\ s[q] = "\n"
           /\ \/ q = Len(s)
              \/ startsWith(SubSeq(lower, q + 1, Len(s)),
                            <<"e","d","u","c","a","t","i","o","n">>)
              \/ startsWith(SubSeq(lower, q + 1, Len(s)),
                            <<"c","e","r","t","i","f","i","c","a","t","i","o","n","s">>)}
  IN  IF at = {} \/ Stops(Min(at) + 1) = {} THEN <<>>
      ELSE <<SubSeq(s, Min(at) + 1, Min(Stops(Min(at) + 1)) - 1)>>

\* (section.match(/^[...]\s/gm) || []).length
bulletCount(section) ==
  Cardinality({i \in 1..(Len(section) - 1) :
                 /\ AtLineStart(section, i)
                 /\ section[i] \in ValidateBulletClass
                 /\ IsSpace(section[i + 1])})

\* checks.commaSkills: true unless a skills section holds over two bullets.
commaSkills(s) ==
  IF skillsSection(s) # <<>> THEN bulletCount(skillsSection(s)[1]) <= 2 ELSE TRUE

requiredSections ==
  <<<<"E","X","P","E","R","I","E","N","C","E">>,
    <<"S","K","I","L","L","S">>,
    <<"E","D","U","C","A","T","I","O","N">>>>

\* A mutant of standardSections that is content with one of the sections.
MutStandardSectionsSome(s) ==
  \E k \in DOMAIN requiredSections :
    includes(toLowerCase(s), toLowerCase(requiredSections[k]))

\* requiredSections.every(s => new RegExp(s, 'i').test(cvText))
standardSections(s) ==
  \A k \in DOMAIN requiredSections :
    includes(toLowerCase(s), toLowerCase(requiredSections[k]))

\* validateATSCompatibility(cvText) for a string.
validateATSCompatibility(cvText) ==
  LET checks == [noBoldOveruse      |-> TRUE,
                 commaSkills        |-> commaSkills(cvText),
                 naturalBullets     |-> ~bulletStuffing(cvText),
                 plainTextParseable |-> TRUE,
                 standardSections   |-> standardSections(cvText)]
  IN  [isValid |-> \A f \in DOMAIN checks : checks[f], checks |-> checks]

(***************************************************************************)
(* _escapeXml, _buildDocxXML                                               *)
(***************************************************************************)

\* s.replace(/c/g, repl) for a pattern of one character c.
replaceAll(s, c, repl) ==
  join([i \in 1..Len(s) |-> IF s[i] = c THEN repl ELSE <<s[i]>>], <<>>)

\* A mutant of _escapeXml that escapes the ampersand last.
MutEscapeXmlAmpLast(text) ==
  IF text = <<>> THEN <<>>
  ELSE replaceAll(
         replaceAll(
           replaceAll(
             replaceAll(
               replaceAll(text, "<", <<"&","l","t",";">>),
               ">", <<"&","g","t",";">>),
             "\"", <<"&","q","u","o","t",";">>),
           "'", <<"&","a","p","o","s",";">>),
         "&", <<"&","a","m","p",";">>)

\* _escapeXml(text) for a string: the five replacements in the order of the
\* code, the ampersand first.
_escapeXml(text) ==
  IF text = <<>> THEN <<>>
  ELSE replaceAll(
         replaceAll(
           replaceAll(
             replaceAll(
               replaceAll(text, "&", <<"&","a","m","p",";">>),
               "<", <<"&","l","t",";">>),
             ">", <<"&","g","t",";">>),
           "\"", <<"&","q","u","o","t",";">>),
         "'", <<"&","a","p","o","s",";">>)

\* parts.map(s => this._escapeXml(s))
escapeEach(parts) == [i \in 1..Len(parts) |-> _escapeXml(parts[i])]

\* The literal text of the template of _buildDocxHeader, and of the links
\* paragraph inside it.
DocxHeaderParts ==
  <<<<"\n"," "," "," "," ","<","w",":","p",">","\n"," "," "," "," "," "," ",
      "<","w",":","p","P","r",">","<","w",":","p","S","t","y","l","e"," ",
      "w",":","v","a","l","=","\"","T","i","t","l","e","\"","/",">","<","w",
      ":","j","c"," ","w",":","v","a","l","=","\"","c","e","n","t","e","r",
      "\"","/",">","<","/","w",":","p","P","r",">","\n"," "," "," "," "," ",
      " ","<","w",":","r",">","<","w",":","r","P","r",">","<","w",":","b",
      "/",">","<","w",":","s","z"," ","w",":","v","a","l","=","\"","3","6",
      "\"","/",">","<","/","w",":","r","P","r",">","<","w",":","t",">">>,
    <<"<","/","w",":","t",">","<","/","w",":","r",">","\n"," "," "," "," ",
      "<","/","w",":","p",">","\n"," "," "," "," ","<","w",":","p",">","\n",
      " "," "," "," "," "," ","<","w",":","p","P","r",">","<","w",":","j",
      "c"," ","w",":","v","a","l","=","\"","c","e","n","t","e","r","\"","/",
      ">","<","/","w",":","p","P","r",">","\n"," "," "," "," "," "," ","<",
      "w",":","r",">","<","w",":","t",">">>,
    <<"<","/","w",":","t",">","<","/","w",":","r",">","\n"," "," "," "," ",
      "<","/","w",":","p",">","\n"," "," "," "," ">>,
    <<"<","w",":","p",">","<","w",":","p","P","r",">","<","w",":","j","c",
      " ","w",":","v","a","l","=","\"","c","e","n","t","e","r","\"","/",">",
      "<","/","w",":","p","P","r",">","<","w",":","r",">","<","w",":","t",
      ">">>,
    <<"<","/","w",":","t",">","<","/","w",":","r",">","<","/","w",":","p",
      ">">>>>

_buildDocxHeader(cv) ==
  LET contact == join(escapeEach(filterBoolean(<<cv.personal.location, cv.personal.email,
                                                 cv.personal.phone>>)), <<" ","|"," ">>)
      links   == join(escapeEach(filterBoolean(<<cv.personal.linkedin, cv.personal.github>>)),
                      <<" ","|"," ">>)
  IN  DocxHeaderParts[1] \o _escapeXml(cv.personal.name)
      \o DocxHeaderParts[2] \o contact
      \o DocxHeaderParts[3]
      \o (IF links # <<>> THEN DocxHeaderParts[4] \o links \o DocxHeaderParts[5] ELSE <<>>)

\* The literal text of the template of _buildDocxSummary.
DocxSummaryParts ==
  <<<<"\n"," "," "," "," ","<","w",":","p",">","\n"," "," "," "," "," "," ",
      "<","w",":","p","P","r",">","<","w",":","p","S","t","y","l","e"," ",
      "w",":","v","a","l","=","\"","H","e","a","d","i","n","g","1","\"","/",
      ">","<","/","w",":","p","P","r",">","\n"," "," "," "," "," "," ","<",
      "w",":","r",">","<","w",":","r","P","r",">","<","w",":","b","/",">",
      "<","/","w",":","r","P","r",">","<","w",":","t",">","P","R","O","F",
      "E","S","S","I","O","N","A","L"," ","S","U","M","M","A","R","Y","<",
      "/","w",":","t",">","<","/","w",":","r",">","\n"," "," "," "," ","<",
      "/","w",":","p",">","\n"," "," "," "," ","<","w",":","p",">","\n"," ",
      " "," "," "," "," ","<","w",":","r",">","<","w",":","t",">">>,
    <<"<","/","w",":","t",">","<","/","w",":","r",">","\n"," "," "," "," ",
      "<","/","w",":","p",">">>>>

_buildDocxSummary(cv) ==
  IF cv.summary = <<>> THEN <<>>
  ELSE DocxSummaryParts[1] \o _escapeXml(cv.summary) \o DocxSummaryParts[2]

\* The literal text of the templates of _buildDocxExperience: the heading,
\* the separator of the title line, and the title, dates and bullet
\* paragraphs.
DocxExperienceParts ==
  <<<<"\n"," "," "," "," ","<","w",":","p",">","\n"," "," "," "," "," "," ",
      "<","w",":","p","P","r",">","<","w",":","p","S","t","y","l","e"," ",
      "w",":","v","a","l","=","\"","H","e","a","d","i","n","g","1","\"","/",
      ">","<","/","w",":","p","P","r",">","\n"," "," "," "," "," "," ","<",
      "w",":","r",">","<","w",":","r","P","r",">","<","w",":","b","/",">",
      "<","/","w",":","r","P","r",">","<","w",":","t",">","E","X","P","E",
      "R","I","E","N","C","E","<","/","w",":","t",">","<","/","w",":","r",
      ">","\n"," "," "," "," ","<","/","w",":","p",">">>,
    <<" ","|"," ">>,
    <<"\n"," "," "," "," ","<","w",":","p",">","\n"," "," "," "," "," "," ",
      "<","w",":","p","P","r",">","<","w",":","p","S","t","y","l","e"," ",
      "w",":","v","a","l","=","\"","H","e","a","d","i","n","g","2","\"","/",
      ">","<","/","w",":","p","P","r",">","\n"," "," "," "," "," "," ","<",
      "w",":","r",">","<","w",":","r","P","r",">","<","w",":","b","/",">",
      "<","/","w",":","r","P","r",">","<","w",":","t",">">>,
    <<"<","/","w",":","t",">","<","/","w",":","r",">","\n"," "," "," "," ",
      "<","/","w",":","p",">">>,
    <<"\n"," "," "," "," ","<","w",":","p",">","\n"," "," "," "," "," "," ",
      "<","w",":","r",">","<","w",":","r","P","r",">","<","w",":","i","/",
      ">","<","/","w",":","r","P","r",">","<","w",":","t",">">>,
    <<"<","/","w",":","t",">","<","/","w",":","r",">","\n"," "," "," "," ",
      "<","/","w",":","p",">">>,
    <<"\n"," "," "," "," ","<","w",":","p",">","\n"," "," "," "," "," "," ",
      "<","w",":","p","P","r",">","<","w",":","n","u","m","P","r",">","<",
      "w",":","i","l","v","l"," ","w",":","v","a","l","=","\"","0","\"","/",
      ">","<","w",":","n","u","m","I","d"," ","w",":","v","a","l","=","\"",
      "1","\"","/",">","<","/","w",":","n","u","m","P","r",">","<","/","w",
      ":","p","P","r",">","\n"," "," "," "," "," "," ","<","w",":","r",">",
      "<","w",":","t",">","U+201A","U+00C4","U+00A2"," ">>,
    <<"<","/","w",":","t",">","<","/","w",":","r",">","\n"," "," "," "," ",
      "<","/","w",":","p",">">>>>

\* What the callback of cv.experience.forEach appends for one entry.
DocxExperienceEntry(exp) ==
  DocxExperienceParts[3]
  \o _escapeXml(exp.company) \o DocxExperienceParts[2] \o _escapeXml(exp.title)
  \o DocxExperienceParts[4]
  \o (IF exp.dates # <<>>
        THEN DocxExperienceParts[5] \o _escapeXml(exp.dates) \o DocxExperienceParts[6]
        ELSE <<>>)
  \o join([b \in 1..Len(slice(exp.bullets, 0, 6)) |->
             DocxExperienceParts[7] \o _escapeXml(exp.bullets[b]) \o DocxExperienceParts[8]],
          <<>>)

_buildDocxExperience(cv) ==
  IF Len(cv.experience) = 0 THEN <<>>
  ELSE DocxExperienceParts[1]
       \o join([i \in 1..Len(cv.experience) |-> DocxExperienceEntry(cv.experience[i])], <<>>)

\* The literal text of the template of _buildDocxSkills.
DocxSkillsParts ==
  <<<<"\n"," "," "," "," ","<","w",":","p",">","\n"," "," "," "," "," "," ",
      "<","w",":","p","P","r",">","<","w",":","p","S","t","y","l","e"," ",
      "w",":","v","a","l","=","\"","H","e","a","d","i","n","g","1","\"","/",
      ">","<","/","w",":","p","P","r",">","\n"," "," "," "," "," "," ","<",
      "w",":","r",">","<","w",":","r","P","r",">","<","w",":","b","/",">",
      "<","/","w",":","r","P","r",">","<","w",":","t",">","S","K","I","L",
      "L","S","<","/","w",":","t",">","<","/","w",":","r",">","\n"," "," ",
      " "," ","<","/","w",":","p",">","\n"," "," "," "," ","<","w",":","p",
      ">","\n"," "," "," "," "," "," ","<","w",":","r",">","<","w",":","t",
      ">">>,
    <<"<","/","w",":","t",">","<","/","w",":","r",">","\n"," "," "," "," ",
      "<","/","w",":","p",">">>>>

_buildDocxSkills(cv) ==
  IF Len(cv.skills.hard) = 0 THEN <<>>
  ELSE DocxSkillsParts[1] \o join(escapeEach(cv.skills.hard), <<","," ">>)
       \o DocxSkillsParts[2]

\* The literal text of the templates of _buildDocxEducation.
DocxEducationParts ==
  <<<<"\n"," "," "," "," ","<","w",":","p",">","\n"," "," "," "," "," "," ",
      "<","w",":","p","P","r",">","<","w",":","p","S","t","y","l","e"," ",
      "w",":","v","a","l","=","\"","H","e","a","d","i","n","g","1","\"","/",
      ">","<","/","w",":","p","P","r",">","\n"," "," "," "," "," "," ","<",
      "w",":","r",">","<","w",":","r","P","r",">","<","w",":","b","/",">",
      "<","/","w",":","r","P","r",">","<","w",":","t",">","E","D","U","C",
      "A","T","I","O","N","<","/","w",":","t",">","<","/","w",":","r",">",
      "\n"," "," "," "," ","<","/","w",":","p",">">>,
    <<"\n"," "," "," "," ","<","w",":","p",">","\n"," "," "," "," "," "," ",
      "<","w",":","r",">","<","w",":","t",">">>,
    <<"<","/","w",":","t",">","<","/","w",":","r",">","\n"," "," "," "," ",
      "<","/","w",":","p",">">>>>

_buildDocxEducation(cv) ==
  IF Len(cv.education) = 0 THEN <<>>
  ELSE DocxEducationParts[1]
       \o join([i \in 1..Len(cv.education) |->
                  DocxEducationParts[2] \o _escapeXml(cv.education[i].degree)
                  \o DocxEducationParts[3]], <<>>)

\* The literal text of the template of _buildDocxCertifications.
DocxCertificationsParts ==
  <<<<"\n"," "," "," "," ","<","w",":","p",">","\n"," "," "," "," "," "," ",
      "<","w",":","p","P","r",">","<","w",":","p","S","t","y","l","e"," ",
      "w",":","v","a","l","=","\"","H","e","a","d","i","n","g","1","\"","/",
      ">","<","/","w",":","p","P","r",">","\n"," "," "," "," "," "," ","<",
      "w",":","r",">","<","w",":","r","P","r",">","<","w",":","b","/",">",
      "<","/","w",":","r","P","r",">","<","w",":","t",">","C","E","R","T",
      "I","F","I","C","A","T","I","O","N","S","<","/","w",":","t",">","<",
      "/","w",":","r",">","\n"," "," "," "," ","<","/","w",":","p",">","\n",
      " "," "," "," ","<","w",":","p",">","\n"," "," "," "," "," "," ","<",
      "w",":","r",">","<","w",":","t",">">>,
    <<"<","/","w",":","t",">","<","/","w",":","r",">","\n"," "," "," "," ",
      "<","/","w",":","p",">">>>>

_buildDocxCertifications(cv) ==
  IF Len(cv.certifications) = 0 THEN <<>>
  ELSE DocxCertificationsParts[1] \o join(escapeEach(cv.certifications), <<","," ">>)
       \o DocxCertificationsParts[2]

xmlHeader ==
    <<"<","?","x","m","l"," ","v","e","r","s","i","o","n","=","\"","1",".",
      "0","\""," ","e","n","c","o","d","i","n","g","=","\"","U","T","F","-",
      "8","\""," ","s","t","a","n","d","a","l","o","n","e","=","\"","y","e",
      "s","\"","?",">">>

\* The literal text of the template of documentXml: before the header,
\* between two sections, and after the certifications.
DocumentXmlParts ==
  <<<<"\n","<","w",":","d","o","c","u","m","e","n","t"," ","x","m","l","n",
      "s",":","w","=","\"","h","t","t","p",":","/","/","s","c","h","e","m",
      "a","s",".","o","p","e","n","x","m","l","f","o","r","m","a","t","s",
      ".","o","r","g","/","w","o","r","d","p","r","o","c","e","s","s","i",
      "n","g","m","l","/","2","0","0","6","/","m","a","i","n","\"","\n"," ",
      " "," "," "," "," "," "," "," "," "," "," ","x","m","l","n","s",":",
      "r","=","\"","h","t","t","p",":","/","/","s","c","h","e","m","a","s",
      ".","o","p","e","n","x","m","l","f","o","r","m","a","t","s",".","o",
      "r","g","/","o","f","f","i","c","e","D","o","c","u","m","e","n","t",
      "/","2","0","0","6","/","r","e","l","a","t","i","o","n","s","h","i",
      "p","s","\"",">","\n"," "," ","<","w",":","b","o","d","y",">","\n",
      " "," "," "," ">>,
    <<"\n"," "," "," "," ">>,
    <<"\n"," "," "," "," ","<","w",":","s","e","c","t","P","r",">","\n"," ",
      " "," "," "," "," ","<","w",":","p","g","S","z"," ","w",":","w","=",
      "\"","1","2","2","4","0","\""," ","w",":","h","=","\"","1","5","8",
      "4","0","\"","/",">","\n"," "," "," "," "," "," ","<","w",":","p","g",
      "M","a","r"," ","w",":","t","o","p","=","\"","1","4","4","0","\""," ",
      "w",":","r","i","g","h","t","=","\"","1","4","4","0","\""," ","w",":",
      "b","o","t","t","o","m","=","\"","1","4","4","0","\""," ","w",":","l",
      "e","f","t","=","\"","1","4","4","0","\"","/",">","\n"," "," "," ",
      " ","<","/","w",":","s","e","c","t","P","r",">","\n"," "," ","<","/",
      "w",":","b","o","d","y",">","\n","<","/","w",":","d","o","c","u","m",
      "e","n","t",">">>>>

documentXml(cv) ==
  xmlHeader \o DocumentXmlParts[1]
  \o _buildDocxHeader(cv) \o DocumentXmlParts[2]
  \o _buildDocxSummary(cv) \o DocumentXmlParts[2]
  \o _buildDocxExperience(cv) \o DocumentXmlParts[2]
  \o _buildDocxSkills(cv) \o DocumentXmlParts[2]
  \o _buildDocxEducation(cv) \o DocumentXmlParts[2]
  \o _buildDocxCertifications(cv) \o DocumentXmlParts[3]

stylesXml ==
  xmlHeader \o
    <<"\n","<","w",":","s","t","y","l","e","s"," ","x","m","l","n","s",":",
      "w","=","\"","h","t","t","p",":","/","/","s","c","h","e","m","a","s",
      ".","o","p","e","n","x","m","l","f","o","r","m","a","t","s",".","o",
      "r","g","/","w","o","r","d","p","r","o","c","e","s","s","i","n","g",
      "m","l","/","2","0","0","6","/","m","a","i","n","\"",">","\n"," "," ",
      "<","w",":","d","o","c","D","e","f","a","u","l","t","s",">","\n"," ",
      " "," "," ","<","w",":","r","P","r","D","e","f","a","u","l","t",">",
      "\n"," "," "," "," "," "," ","<","w",":","r","P","r",">","\n"," "," ",
      " "," "," "," "," "," ","<","w",":","r","F","o","n","t","s"," ","w",
      ":","a","s","c","i","i","=","\"","C","a","l","i","b","r","i","\""," ",
      "w",":","h","A","n","s","i","=","\"","C","a","l","i","b","r","i","\"",
      " ","w",":","c","s","=","\"","C","a","l","i","b","r","i","\"","/",">",
      "\n"," "," "," "," "," "," "," "," ","<","w",":","s","z"," ","w",":",
      "v","a","l","=","\"","2","2","\"","/",">","\n"," "," "," "," "," ",
      " "," "," ","<","w",":","s","z","C","s"," ","w",":","v","a","l","=",
      "\"","2","2","\"","/",">","\n"," "," "," "," "," "," ","<","/","w",
      ":","r","P","r",">","\n"," "," "," "," ","<","/","w",":","r","P","r",
      "D","e","f","a","u","l","t",">","\n"," "," "," "," ","<","w",":","p",
      "P","r","D","e","f","a","u","l","t",">","\n"," "," "," "," "," "," ",
      "<","w",":","p","P","r",">","\n"," "," "," "," "," "," "," "," ","<",
      "w",":","s","p","a","c","i","n","g"," ","w",":","a","f","t","e","r",
      "=","\"","1","2","0","\""," ","w",":","l","i","n","e","=","\"","2",
      "4","0","\""," ","w",":","l","i","n","e","R","u","l","e","=","\"","a",
      "u","t","o","\"","/",">","\n"," "," "," "," "," "," ","<","/","w",":",
      "p","P","r",">","\n"," "," "," "," ","<","/","w",":","p","P","r","D",
      "e","f","a","u","l","t",">","\n"," "," ","<","/","w",":","d","o","c",
      "D","e","f","a","u","l","t","s",">","\n"," "," ","<","w",":","s","t",
      "y","l","e"," ","w",":","t","y","p","e","=","\"","p","a","r","a","g",
      "r","a","p","h","\""," ","w",":","s","t","y","l","e","I","d","=","\"",
      "H","e","a","d","i","n","g","1","\"",">","\n"," "," "," "," ","<","w",
      ":","n","a","m","e"," ","w",":","v","a","l","=","\"","H","e","a","d",
      "i","n","g"," ","1","\"","/",">","\n"," "," "," "," ","<","w",":","p",
      "P","r",">","<","w",":","s","p","a","c","i","n","g"," ","w",":","b",
      "e","f","o","r","e","=","\"","2","4","0","\""," ","w",":","a","f","t",
      "e","r","=","\"","6","0","\"","/",">","<","/","w",":","p","P","r",">",
      "\n"," "," "," "," ","<","w",":","r","P","r",">","<","w",":","b","/",
      ">","<","w",":","s","z"," ","w",":","v","a","l","=","\"","2","8","\"",
      "/",">","<","w",":","s","z","C","s"," ","w",":","v","a","l","=","\"",
      "2","8","\"","/",">","<","/","w",":","r","P","r",">","\n"," "," ","<",
      "/","w",":","s","t","y","l","e",">","\n"," "," ","<","w",":","s","t",
      "y","l","e"," ","w",":","t","y","p","e","=","\"","p","a","r","a","g",
      "r","a","p","h","\""," ","w",":","s","t","y","l","e","I","d","=","\"",
      "H","e","a","d","i","n","g","2","\"",">","\n"," "," "," "," ","<","w",
      ":","n","a","m","e"," ","w",":","v","a","l","=","\"","H","e","a","d",
      "i","n","g"," ","2","\"","/",">","\n"," "," "," "," ","<","w",":","p",
      "P","r",">","<","w",":","s","p","a","c","i","n","g"," ","w",":","b",
      "e","f","o","r","e","=","\"","2","0","0","\""," ","w",":","a","f","t",
      "e","r","=","\"","4","0","\"","/",">","<","/","w",":","p","P","r",">",
      "\n"," "," "," "," ","<","w",":","r","P","r",">","<","w",":","b","/",
      ">","<","w",":","s","z"," ","w",":","v","a","l","=","\"","2","4","\"",
      "/",">","<","w",":","s","z","C","s"," ","w",":","v","a","l","=","\"",
      "2","4","\"","/",">","<","/","w",":","r","P","r",">","\n"," "," ","<",
      "/","w",":","s","t","y","l","e",">","\n"," "," ","<","w",":","s","t",
      "y","l","e"," ","w",":","t","y","p","e","=","\"","p","a","r","a","g",
      "r","a","p","h","\""," ","w",":","s","t","y","l","e","I","d","=","\"",
      "T","i","t","l","e","\"",">","\n"," "," "," "," ","<","w",":","n","a",
      "m","e"," ","w",":","v","a","l","=","\"","T","i","t","l","e","\"","/",
      ">","\n"," "," "," "," ","<","w",":","p","P","r",">","<","w",":","j",
      "c"," ","w",":","v","a","l","=","\"","c","e","n","t","e","r","\"","/",
      ">","<","/","w",":","p","P","r",">","\n"," "," "," "," ","<","w",":",
      "r","P","r",">","<","w",":","b","/",">","<","w",":","s","z"," ","w",
      ":","v","a","l","=","\"","3","6","\"","/",">","<","w",":","s","z","C",
      "s"," ","w",":","v","a","l","=","\"","3","6","\"","/",">","<","/","w",
      ":","r","P","r",">","\n"," "," ","<","/","w",":","s","t","y","l","e",
      ">","\n","<","/","w",":","s","t","y","l","e","s",">">>

contentTypesXml ==
  xmlHeader \o
    <<"\n","<","T","y","p","e","s"," ","x","m","l","n","s","=","\"","h","t",
      "t","p",":","/","/","s","c","h","e","m","a","s",".","o","p","e","n",
      "x","m","l","f","o","r","m","a","t","s",".","o","r","g","/","p","a",
      "c","k","a","g","e","/","2","0","0","6","/","c","o","n","t","e","n",
      "t","-","t","y","p","e","s","\"",">","\n"," "," ","<","D","e","f","a",
      "u","l","t"," ","E","x","t","e","n","s","i","o","n","=","\"","r","e",
      "l","s","\""," ","C","o","n","t","e","n","t","T","y","p","e","=","\"",
      "a","p","p","l","i","c","a","t","i","o","n","/","v","n","d",".","o",
      "p","e","n","x","m","l","f","o","r","m","a","t","s","-","p","a","c",
      "k","a","g","e",".","r","e","l","a","t","i","o","n","s","h","i","p",
      "s","+","x","m","l","\"","/",">","\n"," "," ","<","D","e","f","a","u",
      "l","t"," ","E","x","t","e","n","s","i","o","n","=","\"","x","m","l",
      "\""," ","C","o","n","t","e","n","t","T","y","p","e","=","\"","a","p",
      "p","l","i","c","a","t","i","o","n","/","x","m","l","\"","/",">","\n",
      " "," ","<","O","v","e","r","r","i","d","e"," ","P","a","r","t","N",
      "a","m","e","=","\"","/","w","o","r","d","/","d","o","c","u","m","e",
      "n","t",".","x","m","l","\""," ","C","o","n","t","e","n","t","T","y",
      "p","e","=","\"","a","p","p","l","i","c","a","t","i","o","n","/","v",
      "n","d",".","o","p","e","n","x","m","l","f","o","r","m","a","t","s",
      "-","o","f","f","i","c","e","d","o","c","u","m","e","n","t",".","w",
      "o","r","d","p","r","o","c","e","s","s","i","n","g","m","l",".","d",
      "o","c","u","m","e","n","t",".","m","a","i","n","+","x","m","l","\"",
      "/",">","\n"," "," ","<","O","v","e","r","r","i","d","e"," ","P","a",
      "r","t","N","a","m","e","=","\"","/","w","o","r","d","/","s","t","y",
      "l","e","s",".","x","m","l","\""," ","C","o","n","t","e","n","t","T",
      "y","p","e","=","\"","a","p","p","l","i","c","a","t","i","o","n","/",
      "v","n","d",".","o","p","e","n","x","m","l","f","o","r","m","a","t",
      "s","-","o","f","f","i","c","e","d","o","c","u","m","e","n","t",".",
      "w","o","r","d","p","r","o","c","e","s","s","i","n","g","m","l",".",
      "s","t","y","l","e","s","+","x","m","l","\"","/",">","\n","<","/","T",
      "y","p","e","s",">">>

relsXml ==
  xmlHeader \o
    <<"\n","<","R","e","l","a","t","i","o","n","s","h","i","p","s"," ","x",
      "m","l","n","s","=","\"","h","t","t","p",":","/","/","s","c","h","e",
      "m","a","s",".","o","p","e","n","x","m","l","f","o","r","m","a","t",
      "s",".","o","r","g","/","p","a","c","k","a","g","e","/","2","0","0",
      "6","/","r","e","l","a","t","i","o","n","s","h","i","p","s","\"",">",
      "\n"," "," ","<","R","e","l","a","t","i","o","n","s","h","i","p"," ",
      "I","d","=","\"","r","I","d","1","\""," ","T","y","p","e","=","\"",
      "h","t","t","p",":","/","/","s","c","h","e","m","a","s",".","o","p",
      "e","n","x","m","l","f","o","r","m","a","t","s",".","o","r","g","/",
      "o","f","f","i","c","e","D","o","c","u","m","e","n","t","/","2","0",
      "0","6","/","r","e","l","a","t","i","o","n","s","h","i","p","s","/",
      "o","f","f","i","c","e","D","o","c","u","m","e","n","t","\""," ","T",
      "a","r","g","e","t","=","\"","w","o","r","d","/","d","o","c","u","m",
      "e","n","t",".","x","m","l","\"","/",">","\n","<","/","R","e","l","a",
      "t","i","o","n","s","h","i","p","s",">">>

documentRelsXml ==
  xmlHeader \o
    <<"\n","<","R","e","l","a","t","i","o","n","s","h","i","p","s"," ","x",
      "m","l","n","s","=","\"","h","t","t","p",":","/","/","s","c","h","e",
      "m","a","s",".","o","p","e","n","x","m","l","f","o","r","m","a","t",
      "s",".","o","r","g","/","p","a","c","k","a","g","e","/","2","0","0",
      "6","/","r","e","l","a","t","i","o","n","s","h","i","p","s","\"",">",
      "\n"," "," ","<","R","e","l","a","t","i","o","n","s","h","i","p"," ",
      "I","d","=","\"","r","I","d","1","\""," ","T","y","p","e","=","\"",
      "h","t","t","p",":","/","/","s","c","h","e","m","a","s",".","o","p",
      "e","n","x","m","l","f","o","r","m","a","t","s",".","o","r","g","/",
      "o","f","f","i","c","e","D","o","c","u","m","e","n","t","/","2","0",
      "0","6","/","r","e","l","a","t","i","o","n","s","h","i","p","s","/",
      "s","t","y","l","e","s","\""," ","T","a","r","g","e","t","=","\"","s",
      "t","y","l","e","s",".","x","m","l","\"","/",">","\n","<","/","R","e",
      "l","a","t","i","o","n","s","h","i","p","s",">">>

\* _buildDocxXML(cv): the parts of the package as <<path, content>> pairs,
\* in the order of the keys of the object returned.
_buildDocxXML(cv) ==
  <<<<<<"[","C","o","n","t","e","n","t","_","T","y","p","e","s","]",".","x",
        "m","l">>,
      contentTypesXml>>,
    <<<<"_","r","e","l","s","/",".","r","e","l","s">>,
      relsXml>>,
    <<<<"w","o","r","d","/","d","o","c","u","m","e","n","t",".","x","m",
        "l">>,
      documentXml(cv)>>,
    <<<<"w","o","r","d","/","s","t","y","l","e","s",".","x","m","l">>,
      stylesXml>>,
    <<<<"w","o","r","d","/","_","r","e","l","s","/","d","o","c","u","m","e",
        "n","t",".","x","m","l",".","r","e","l","s">>,
      documentRelsXml>>>>

(***************************************************************************)
(* exportToPDF (_buildPDFContent, _createPDFBlob)                          *)
(***************************************************************************)

DigitChars == <<"0","1","2","3","4","5","6","7","8","9">>

\* n.toString() for an integer n.
RECURSIVE NumberToString(_)
NumberToString(n) ==
  IF n < 0 THEN <<"-">> \o NumberToString(0 - n)
  ELSE IF n < 10 THEN <<DigitChars[n + 1]>>
  ELSE NumberToString(n \div 10) \o <<DigitChars[(n % 10) + 1]>>

\* s.padStart(n, c) for a one-character c.
padStart(s, n, c) ==
  IF Len(s) >= n THEN s ELSE [i \in 1..(n - Len(s)) |-> c] \o s

\* Math.ceil(a / b) for integers a >= 0 and b > 0.
ceilDiv(a, b) == (a + b - 1) \div b

\* An element of textContent.  A field the code leaves out of an element is
\* read back as falsy: bold and center as FALSE, indent as 0.
PdfItem(text, size, bold, y, center, indent) ==
  [text |-> text, size |-> size, bold |-> bold, y |-> y, center |-> center,
   indent |-> indent]

\* textContent and y after the header part of _buildPDFContent.
PdfHeader(cv) ==
  LET y0      == 750
      y1      == y0 - 24
      contact == join(filterBoolean(<<cv.personal.location, cv.personal.email,
                                      cv.personal.phone>>), <<" ","|"," ">>)
      y2      == y1 - 16
      links   == join(filterBoolean(<<cv.personal.linkedin, cv.personal.github>>),
                      <<" ","|"," ">>)
  IN  IF links # <<>>
        THEN [textContent |->
                <<PdfItem(toUpperCase(cv.personal.name), 18, TRUE, y0, TRUE, 0),
                  PdfItem(contact, 10, FALSE, y1, TRUE, 0),
                  PdfItem(links, 10, FALSE, y2, TRUE, 0)>>,
              y |-> y2 - 24]
        ELSE [textContent |->
                <<PdfItem(toUpperCase(cv.personal.name), 18, TRUE, y0, TRUE, 0),
                  PdfItem(contact, 10, FALSE, y1, TRUE, 0)>>,
              y |-> y2]

\* The summary part: lineHeight is 14.
PdfSummary(st, cv) ==
  IF cv.summary # <<>>
    THEN [textContent |->
            st.textContent
            \o <<PdfItem(<<"P","R","O","F","E","S","S","I","O","N","A","L"," ",
                           "S","U","M","M","A","R","Y">>,
                         12, TRUE, st.y - 12, FALSE, 0),
                 PdfItem(cv.summary, 10, FALSE, st.y - 12 - 16, FALSE, 0)>>,
          y |-> st.y - 12 - 16 - (ceilDiv(Len(cv.summary), 80) * 14 + 12)]
    ELSE st

\* One bullet of an experience entry.
PdfBulletStep(st, bullet) ==
  [textContent |->
     Append(st.textContent,
            PdfItem(BulletGlyph \o <<" ">> \o bullet, 10, FALSE, st.y, FALSE, 10)),
   y |-> st.y - ceilDiv(Len(bullet), 85) * 14]

\* The first n of bullets.
RECURSIVE PdfBulletLoop(_, _, _)
PdfBulletLoop(st, bullets, n) ==
  IF n = 0 THEN st
  ELSE Strict(LAMBDA prev : PdfBulletStep(prev, bullets[n]),
              PdfBulletLoop(st, bullets, n - 1))

\* One experience entry: its heading, its dates, its first six bullets.
PdfExperienceEntry(st, exp) ==
  LET head  == [textContent |->
                  Append(st.textContent,
                         PdfItem(exp.company \o <<" ","|"," ">> \o exp.title,
                                 11, TRUE, st.y, FALSE, 0)),
                y |-> st.y - 14]
      dated == IF exp.dates # <<>>
                 THEN [textContent |->
                         Append(head.textContent,
                                PdfItem(exp.dates, 10, FALSE, head.y, FALSE, 0)),
                       y |-> head.y - 14]
                 ELSE head
      done  == Strict(LAMBDA d : PdfBulletLoop(d, slice(exp.bullets, 0, 6),
                                               Len(slice(exp.bullets, 0, 6))),
                      dated)
  IN  Strict(LAMBDA d : [d EXCEPT !.y = @ - 8], done)

\* The first n experience entries.
RECURSIVE PdfExperienceLoop(_, _, _)
PdfExperienceLoop(st, experience, n) ==
  IF n = 0 THEN st
  ELSE Strict(LAMBDA prev : PdfExperienceEntry(prev, experience[n]),
              PdfExperienceLoop(st, experience, n - 1))

\* The experience part.
PdfExperience(st, cv) ==
  IF Len(cv.experience) # 0
    THEN PdfExperienceLoop(
           [textContent |->
              Append(st.textContent,
                     PdfItem(<<"E","X","P","E","R","I","E","N","C","E">>,
                             12, TRUE, st.y, FALSE, 0)),
            y |-> st.y - 18],
           cv.experience, Len(cv.experience))
    ELSE st

\* The skills part.
PdfSkills(st, cv) ==
  IF Len(cv.skills.hard) # 0
    THEN [textContent |->
            st.textContent
            \o <<PdfItem(<<"S","K","I","L","L","S">>, 12, TRUE, st.y - 8, FALSE, 0),
                 PdfItem(join(cv.skills.hard, <<","," ">>), 10, FALSE,
                         st.y - 8 - 16, FALSE, 0)>>,
          y |-> st.y - 8 - 16 - 20]
    ELSE st

\* The education part.
PdfEducation(st, cv) ==
  IF Len(cv.education) # 0
    THEN [textContent |->
            st.textContent
            \o <<PdfItem(<<"E","D","U","C","A","T","I","O","N">>, 12, TRUE, st.y,
                         FALSE, 0)>>
            \o [i \in 1..Len(cv.education) |->
                  PdfItem(cv.education[i].degree, 10, FALSE,
                          st.y - 16 - 14 * (i - 1), FALSE, 0)],
          y |-> st.y - 16 - 14 * Len(cv.education)]
    ELSE st

\* The array textContent of _buildPDFContent.
PdfTextContent(cv) ==
  Strict(LAMBDA e : PdfEducation(e, cv).textContent,
    Strict(LAMBDA k : PdfSkills(k, cv),
      Strict(LAMBDA x : PdfExperience(x, cv),
        Strict(LAMBDA h : PdfSummary(h, cv), PdfHeader(cv)))))

\* The characters U+0000 to U+001F that the model writes.
ControlChars == {c \in DOMAIN CodePoints : CodePoints[c] <= 31}

\* A mutant of escapedText that escapes the parentheses before it doubles
\* the backslash.
MutPdfEscapeBackslashLast(text) ==
  SelectSeq(
    replaceAll(
      replaceAll(
        replaceAll(text, "(", <<"\\","(">>),
        ")", <<"\\",")">>),
      "\\", <<"\\","\\">>),
    LAMBDA c : c \notin ControlChars)

\* escapedText: the backslash doubled, then the parentheses escaped, then
\* the control characters dropped.
PdfEscape(text) ==
  SelectSeq(
    replaceAll(
      replaceAll(
        replaceAll(text, "\\", <<"\\","\\">>),
        "(", <<"\\","(">>),
      ")", <<"\\",")">>),
    LAMBDA c : c \notin ControlChars)

\* What one element of textContent adds to textStream.
PdfTextLine(item) ==
  <<"B","T"," ">>
  \o (IF item.bold THEN <<"/","F","2">> ELSE <<"/","F","1">>)
  \o <<" ">> \o NumberToString(IF item.size # 0 THEN item.size ELSE 11)
  \o <<" ","T","f"," ">>
  \o NumberToString(IF item.center THEN 306 ELSE 72 + item.indent)
  \o <<" ">> \o NumberToString(item.y)
  \o <<" ","T","d"," ","(">> \o PdfEscape(item.text)
  \o <<")"," ","T","j"," ","E","T","\n">>

\* The literal text of the template of _createPDFBlob.
PdfParts ==
  <<<<"%","P","D","F","-","1",".","4","\n","1"," ","0"," ","o","b","j","\n",
      "<","<"," ","/","T","y","p","e"," ","/","C","a","t","a","l","o","g",
      " ","/","P","a","g","e","s"," ","2"," ","0"," ","R"," ",">",">","\n",
      "e","n","d","o","b","j","\n","2"," ","0"," ","o","b","j","\n","<","<",
      " ","/","T","y","p","e"," ","/","P","a","g","e","s"," ","/","K","i",
      "d","s"," ","[","3"," ","0"," ","R","]"," ","/","C","o","u","n","t",
      " ","1"," ",">",">","\n","e","n","d","o","b","j","\n","3"," ","0"," ",
      "o","b","j","\n","<","<"," ","/","T","y","p","e"," ","/","P","a","g",
      "e"," ","/","P","a","r","e","n","t"," ","2"," ","0"," ","R"," ","/",
      "M","e","d","i","a","B","o","x"," ","[","0"," ","0"," ","6","1","2",
      " ","7","9","2","]"," ","/","C","o","n","t","e","n","t","s"," ","4",
      " ","0"," ","R"," ","/","R","e","s","o","u","r","c","e","s"," ","<",
      "<"," ","/","F","o","n","t"," ","<","<"," ","/","F","1"," ","5"," ",
      "0"," ","R"," ","/","F","2"," ","6"," ","0"," ","R"," ",">",">"," ",
      ">",">"," ",">",">","\n","e","n","d","o","b","j","\n","4"," ","0"," ",
      "o","b","j","\n","<","<"," ","/","L","e","n","g","t","h"," ">>,
    <<" ",">",">","\n","s","t","r","e","a","m","\n">>,
    <<"e","n","d","s","t","r","e","a","m","\n","e","n","d","o","b","j","\n",
      "5"," ","0"," ","o","b","j","\n","<","<"," ","/","T","y","p","e"," ",
      "/","F","o","n","t"," ","/","S","u","b","t","y","p","e"," ","/","T",
      "y","p","e","1"," ","/","B","a","s","e","F","o","n","t"," ","/","H",
      "e","l","v","e","t","i","c","a"," ",">",">","\n","e","n","d","o","b",
      "j","\n","6"," ","0"," ","o","b","j","\n","<","<"," ","/","T","y","p",
      "e"," ","/","F","o","n","t"," ","/","S","u","b","t","y","p","e"," ",
      "/","T","y","p","e","1"," ","/","B","a","s","e","F","o","n","t"," ",
      "/","H","e","l","v","e","t","i","c","a","-","B","o","l","d"," ",">",
      ">","\n","e","n","d","o","b","j","\n","x","r","e","f","\n","0"," ",
      "7","\n","0","0","0","0","0","0","0","0","0","0"," ","6","5","5","3",
      "5"," ","f"," ","\n","0","0","0","0","0","0","0","0","0","9"," ","0",
      "0","0","0","0"," ","n"," ","\n","0","0","0","0","0","0","0","0","5",
      "8"," ","0","0","0","0","0"," ","n"," ","\n","0","0","0","0","0","0",
      "0","1","1","5"," ","0","0","0","0","0"," ","n"," ","\n","0","0","0",
      "0","0","0","0","2","6","6"," ","0","0","0","0","0"," ","n"," ","\n",
      "0","0","0","0","0","0","0">>,
    <<" ","0","0","0","0","0"," ","n"," ","\n","0","0","0","0","0","0","0">>,
    <<" ","0","0","0","0","0"," ","n"," ","\n","t","r","a","i","l","e","r",
      "\n","<","<"," ","/","S","i","z","e"," ","7"," ","/","R","o","o","t",
      " ","1"," ","0"," ","R"," ",">",">","\n","s","t","a","r","t","x","r",
      "e","f","\n">>,
    <<"\n","%","%","E","O","F">>>>

PdfMimeType == "application/pdf"

\* _createPDFBlob(textContent): the Blob holds the UTF-8 bytes of the text.
_createPDFBlob(textContent) ==
  LET textStream   == join([i \in 1..Len(textContent) |->
                              PdfTextLine(textContent[i])], <<>>)
      streamLength == Len(textStream)
      pdf == PdfParts[1] \o NumberToString(streamLength)
             \o PdfParts[2] \o textStream
             \o PdfParts[3]
             \o padStart(NumberToString(streamLength + 320), 3, "0")
             \o PdfParts[4]
             \o padStart(NumberToString(streamLength + 390), 3, "0")
             \o PdfParts[5] \o NumberToString(streamLength + 460)
             \o PdfParts[6]
  IN  [type |-> PdfMimeType, bytes |-> encode(pdf)]

_buildPDFContent(cv) == Strict(_createPDFBlob, PdfTextContent(cv))

(***************************************************************************)
(* exportToDocx, exportToPDF, exportAllFormats                             *)
(***************************************************************************)

\* A settled promise.
Fulfilled(value) == [state |-> "fulfilled", value |-> value]

Rejected(reason) == [state |-> "rejected", reason |-> reason]

\* this._crc32Table before _crc32 ran: a table without entries.
NoTable == <<>>

\* The engine object before any archive was written: no cached CRC table.
NewEngine == [_crc32Table |-> NoTable]

\* The table _crc32 reads: the cached one, or a new one.
Crc32Table(this) ==
  IF this._crc32Table = NoTable THEN _makeCRC32Table ELSE this._crc32Table

\* A mutant of CacheCrc32Table that stores the table before its upper half
\* is filled: a Uint32Array starts as zeros.
MutCacheHalfBuiltTable(this) ==
  IF this._crc32Table = NoTable
    THEN [this EXCEPT !._crc32Table =
            [i \in 0..255 |-> IF i < 128 THEN _makeCRC32Table[i] ELSE <<0, 0>>]]
    ELSE this

\* this._crc32Table after _crc32 ran: set by the first call, kept by the
\* later ones.
CacheCrc32Table(this) == [this EXCEPT !._crc32Table = Crc32Table(this)]

\* zip.generateAsync of the JSZip library, when the page has one: the promise
\* it returns settles with a Blob of the library's making or with an Error.
JSZipGenerateAsync(files, outcome) ==
  IF outcome = "resolves"
    THEN Fulfilled([type |-> DocxMimeType, JSZip |-> files])
    ELSE Rejected([name |-> "Error", message |-> "JSZip: generateAsync failed"])

\* _createDocxBlob(files): the promise it returns and the engine after it.
\* env.JSZip is "undefined" when typeof JSZip is 'undefined'.
_createDocxBlob(this, files, env) ==
  IF env.JSZip # "undefined"
    THEN [promise |-> JSZipGenerateAsync(files, env.JSZip), this |-> this]
    ELSE [promise |-> Fulfilled(CreateMinimalZipWith(Crc32Table(this), files)),
          this |-> IF files = <<>> THEN this ELSE CacheCrc32Table(this)]

\* exportToDocx(cv) up to its await.
ExportToDocxStart(this, cv, env) ==
  Strict(LAMBDA files :
           Strict(LAMBDA r : [promise |-> r.promise, this |-> r.this,
                              log |-> <<[message |-> "[CVInjector] Generating native DOCX"]>>],
                  _createDocxBlob(this, files, env)),
         _buildDocxXML(cv))

\* exportToDocx(cv) from its await on: the promise it returns settles as the
\* awaited one did.
ExportToDocxResume(awaited, elapsed) ==
  IF awaited.state = "fulfilled"
    THEN [promise |-> awaited,
          log |-> <<[message |-> "[CVInjector] DOCX generated", timing |-> elapsed]>>]
    ELSE [promise |-> awaited, log |-> <<>>]

\* exportToPDF(cv).  env.jsPDF says whether jspdf or jsPDF is defined; the
\* engine has no method _exportWithJsPDF, so the call of it throws.
exportToPDF(cv, env, elapsed) ==
  IF env.jsPDF
    THEN [promise |-> Rejected([name |-> "TypeError",
                                message |-> "this._exportWithJsPDF is not a function"]),
          log |-> <<[message |-> "[CVInjector] Generating native PDF"]>>]
    ELSE Strict(LAMBDA blob :
                  [promise |-> Fulfilled(blob),
                   log |-> <<[message |-> "[CVInjector] Generating native PDF"],
                             [message |-> "[CVInjector] PDF generated",
                              timing |-> elapsed]>>],
                _buildPDFContent(cv))

TextMimeType == "text/plain"

\* `${baseName}.${format}`
FileName(baseName, format) == baseName \o <<".">> \o format

\* An element of results.files.
ExportedFile(format, blob, baseName) ==
  [format |-> format, blob |-> blob, filename |-> FileName(baseName, format)]

\* The baseName parameter of exportAllFormats, 'ATS_CV' when left out.
BaseNameOf(a) ==
  IF "baseName" \in DOMAIN a THEN a.baseName ELSE <<"A","T","S","_","C","V">>

\* A mutant of ExportAllFormatsCatch that reports no file.
MutCatchDropsFiles(results, error) ==
  [success |-> FALSE, files |-> <<>>, error |-> error.message]

\* The catch block of exportAllFormats.
ExportAllFormatsCatch(results, error) ==
  [success |-> FALSE, files |-> results.files, error |-> error.message]

\* exportAllFormats from the await of exportToDocx on, up to the await of
\* exportToPDF or to the return of the catch block.
ExportAllFormatsAfterDocx(results, awaited, cv, baseName, env, elapsed) ==
  IF awaited.state = "rejected"
    THEN [results |-> ExportAllFormatsCatch(results, awaited.reason),
          promise |-> None,
          log |-> <<[message |-> "[CVInjector] Export error:",
                     error |-> awaited.reason]>>,
          pc |-> "done"]
    ELSE Strict(LAMBDA pdf :
                  [results |-> [results EXCEPT !.files =
                                  Append(@, ExportedFile(<<"d","o","c","x">>,
                                                         awaited.value, baseName))],
                   promise |-> pdf.promise,
                   log |-> pdf.log,
                   pc |-> "exportAllFormats:exportToPDF"],
                exportToPDF(cv, env, elapsed))

\* The formats of files, joined for the last message.
RECURSIVE FormatsOf(_, _)
FormatsOf(files, n) ==
  IF n = 0 THEN <<>> ELSE Append(FormatsOf(files, n - 1), files[n].format)

\* exportAllFormats from the await of exportToPDF on.
ExportAllFormatsAfterPDF(results, awaited, cv, baseName) ==
  IF awaited.state = "rejected"
    THEN [results |-> ExportAllFormatsCatch(results, awaited.reason),
          log |-> <<[message |-> "[CVInjector] Export error:",
                     error |-> awaited.reason]>>]
    ELSE Strict(LAMBDA txtContent :
                  LET files == results.files
                               \o <<ExportedFile(<<"p","d","f">>, awaited.value, baseName),
                                    ExportedFile(<<"t","x","t">>,
                                                 [type |-> TextMimeType,
                                                  bytes |-> encode(txtContent)],
                                                 baseName)>>
                  IN  [results |-> [results EXCEPT !.files = files],
                       log |-> <<[message |-> "[CVInjector] All formats exported:",
                                  formats |-> join(FormatsOf(files, Len(files)),
                                                   <<","," ">>)]>>],
                exportToDocxText(cv))

(***************************************************************************)
(* FileAttacher (the second definition, the one window.FileAttacher keeps)  *)
(***************************************************************************)

\* A file input of the page is a record: the text of its first label, its
\* name, the texts of its two nearest ancestors, and the files it holds.
\* Its id, aria-label, placeholder and data-automation-id are empty.  The
\* page has no listener that moves files when fireEvents dispatches input,
\* change and blur, and DataTransfer does not throw.

\* The patterns, as the literal each regular expression looks for; all of
\* them ignore case.
CV_PATTERNS == <<<<"r","e","s","u","m","e">>, <<"c","v">>, <<"c","u","r","r","i","c","u","l","u","m">>>>

COVER_PATTERNS == <<<<"c","o","v","e","r">>, <<"l","e","t","t","e","r">>>>

getFieldContext(input) ==
  toLowerCase(join((IF input.label # <<>> THEN <<input.label>> ELSE <<>>)
                     \o <<input.name, <<>>, <<>>, <<>>, <<>>>> \o input.parents,
                   <<" ">>))

matchesFieldType(input, patterns, antiPatterns) ==
  LET text == getFieldContext(input)
  IN  IF \E a \in DOMAIN antiPatterns : includes(toLowerCase(text), antiPatterns[a])
        THEN FALSE
        ELSE \E p \in DOMAIN patterns : includes(toLowerCase(text), patterns[p])

\* The index [...fileInputs].find(...) stops at, 0 for undefined.
FirstIndex(S) == IF S = {} THEN 0 ELSE Min(S)

\* attachFile(input, file): the input afterwards, the value returned and
\* the console lines.
attachFile(input, file) ==
  IF input.files # <<>> /\ input.files[1].name = file.name
       /\ input.files[1].size = file.size
    THEN [input |-> input, value |-> TRUE,
          log |-> <<[message |-> "[FileAttacher] File already attached:",
                     name |-> file.name]>>]
    ELSE [input |-> [input EXCEPT !.files = <<file>>], value |-> TRUE,
          log |-> <<[message |-> "[FileAttacher] Attached:", name |-> file.name]>>]

\* attachFile on input i of the page.
AttachAt(inputs, i, file) ==
  LET r == attachFile(inputs[i], file)
  IN  [document |-> [inputs EXCEPT ![i] = r.input], value |-> r.value, log |-> r.log]

\* removeLazyApplyFiles(): the page afterwards and the number removed.
removeLazyApplyFiles(inputs) ==
  LET lazy == {i \in DOMAIN inputs :
                 /\ inputs[i].files # <<>>
                 /\ \E l \in {<<"l","a","z","y","a","p","p","l","y">>, <<"l","a","z","y","_","a","p","p","l","y">>, <<"l","a","z","y","-","a","p","p","l","y">>} :
                      includes(toLowerCase(inputs[i].files[1].name), l)}
  IN  [document |-> [i \in DOMAIN inputs |->
                       IF i \in lazy THEN [inputs[i] EXCEPT !.files = <<>>] ELSE inputs[i]],
       removed |-> Cardinality(lazy)]

attachToFirstMatch(inputs, file, type) ==
  LET patterns     == IF type = "cv" THEN CV_PATTERNS ELSE COVER_PATTERNS
      antiPatterns == IF type = "cv" THEN COVER_PATTERNS ELSE CV_PATTERNS
      match == FirstIndex({i \in DOMAIN inputs :
                             matchesFieldType(inputs[i], patterns, antiPatterns)})
      firstUnused == FirstIndex({i \in DOMAIN inputs : inputs[i].files = <<>>})
  IN  IF match # 0 THEN AttachAt(inputs, match, file)
      ELSE IF type = "cv" /\ Len(inputs) > 0 /\ firstUnused # 0
        THEN AttachAt(inputs, firstUnused, file)
      ELSE [document |-> inputs, value |-> FALSE, log |-> <<>>]

attachToCoverField(inputs, file) ==
  LET match == FirstIndex({i \in DOMAIN inputs :
                             matchesFieldType(inputs[i], COVER_PATTERNS, CV_PATTERNS)})
      cvInput == FirstIndex({i \in DOMAIN inputs :
                               matchesFieldType(inputs[i], CV_PATTERNS, <<>>)})
      coverInput == FirstIndex({i \in DOMAIN inputs :
                                  i # cvInput /\ inputs[i].files = <<>>})
  IN  IF match # 0 THEN AttachAt(inputs, match, file)
      ELSE IF Len(inputs) >= 2 /\ coverInput # 0
        THEN AttachAt(inputs, coverInput, file)
      ELSE [document |-> inputs, value |-> FALSE, log |-> <<>>]

\* FileAttacher.pipelineState as the object literal has it.
pipelineState ==
  [cvAttached |-> FALSE, coverAttached |-> FALSE, lastAttachedFiles |-> null,
   jobGenieReady |-> FALSE]

\* One run of the closure checkAndAttach of startAttachmentMonitor: the page
\* and attached afterwards, whether it asked for another animation frame,
\* and the console lines.  elapsed is Date.now() - startTime.
checkAndAttach(inputs, attached, cvFile, coverFile, maxDuration, elapsed) ==
  IF elapsed > maxDuration
    THEN [document |-> inputs, attached |-> attached, requested |-> FALSE, log |-> <<>>]
  ELSE
    LET Part(doc, file, patterns, antiPatterns) ==
          LET match == FirstIndex({i \in DOMAIN doc :
                                     matchesFieldType(doc[i], patterns, antiPatterns)})
          IN  IF match # 0 /\ (doc[match].files = <<>>
                                 \/ doc[match].files[1].name # file.name)
                THEN AttachAt(doc, match, file)
                ELSE [document |-> doc, value |-> FALSE, log |-> <<>>]
        cv == IF cvFile # null /\ ~attached.cv
                THEN Part(inputs, cvFile, CV_PATTERNS, COVER_PATTERNS)
                ELSE [document |-> inputs, value |-> FALSE, log |-> <<>>]
        cover == IF coverFile # null /\ ~attached.cover
                   THEN Part(cv.document, coverFile, COVER_PATTERNS, CV_PATTERNS)
                   ELSE [document |-> cv.document, value |-> FALSE, log |-> <<>>]
        after == [cv |-> attached.cv \/ cv.value, cover |-> attached.cover \/ cover.value]
    IN  [document |-> cover.document, attached |-> after,
         requested |-> ~after.cv \/ ~after.cover,
         log |-> cv.log \o cover.log]

(***************************************************************************)
(* Inputs                                                                  *)
(***************************************************************************)

\* Every sequence over S of length at most n.
SeqsUpTo(S, n) == UNION {[1..k -> S] : k \in 0..n}

\* The bytes of "123456789".
CheckVector == <<49, 50, 51, 52, 53, 54, 55, 56, 57>>

MaxCrcLen == 3

CrcBytes == {0, 1, 49, 128, 255}

CrcInputs == SeqsUpTo(CrcBytes, MaxCrcLen) \cup {CheckVector}

\* Keyword texts: "Go" and "go" differ by case only, "ML" occurs in the
\* second injection template.
KwTexts ==
  <<<<"G","o">>, <<"g","o">>, <<"M","L">>, <<"K","8","s">>, <<"R","u","s","t">>,
    <<"A","I">>, <<"S","Q","L">>, <<"C","I">>, <<"G","i","t">>>>

\* len keyword texts from KwTexts, starting at start and advancing by stride
\* (stride 0 repeats one text).
Window(start, len, stride) ==
  [i \in 1..len |-> KwTexts[((start - 1 + (i - 1) * stride) % Len(KwTexts)) + 1]]

MaxHigh == 6

MaxMedium == 3

\* From "Go": runs with a repeat up to case; from "ML": runs of distinct
\* texts; and one text repeated exactly.
HighLists ==
  {Window(1, len, 1) : len \in 0..MaxHigh}
  \cup {Window(3, len, 1) : len \in 1..MaxHigh}
  \cup {Window(1, len, 0) : len \in 2..3}

\* "CI", "Git", "Go": the last one is also a high-priority text.
MediumLists == {Window(8, len, 1) : len \in {0, MaxMedium}}

\* The keyword groups handed to parseKeywordsToJSON.
KeywordGroups ==
  {[highROI |-> h, mediumROI |-> m, lowROI |-> <<<<"R","u","s","t">>>>] :
     h \in HighLists, m \in MediumLists}

BulletTexts ==
  <<<<"B","u","i","l","t"," ","s","y","s","t","e","m","s",".">>,
    <<"U","s","e","d"," ","G","o"," ","d","a","i","l","y">>,
    <<"L","e","d"," ","M","L"," ","t","e","a","m",".">>>>

SkillLists ==
  <<<<>>,
    <<<<"P","y","t","h","o","n">>, <<"G","o">>>>,
    <<<<"g","o">>, <<"G","o">>>>,
    <<<<"P","y","t","h","o","n">>, <<"p","y","t","h","o","n">>, <<"S","Q","L">>>>>>

\* No options, an override, and an empty override.
OptionsList ==
  <<[n \in {} |-> n],
    [locationOverride |-> <<"D","u","b","l","i","n">>],
    [locationOverride |-> <<>>]>>

MaxEntries == 2

MaxBullets == 14

BulletCounts == {0, 1, 2, MaxBullets}

NumVariants == Len(SkillLists)

\* The Document with the given number of experience entries and bullets;
\* v picks the bullet texts and the skills.
Document(entries, bullets0, v) ==
  [personal |-> [name |-> <<"J","a","n","e"," ","D","o","e">>,
                 location |-> <<"C","o","r","k",","," ","I","E">>,
                 email |-> <<"j","@","x",".","i","o">>,
                 phone |-> <<>>, linkedin |-> <<>>, github |-> <<>>],
   summary |-> IF v % 2 = 0 THEN <<>> ELSE <<"E","n","g","i","n","e","e","r",".">>,
   experience |->
     [e \in 1..entries |->
        [title |-> <<"D","e","v">>,
         company |-> <<"A", "c", "m", "e", UpperAZ[e]>>,
         dates |-> IF e = 1 THEN <<"2","0","2","0","-","P","r","e","s","e","n","t">> ELSE <<>>,
         bullets |->
           [b \in 1..(IF e = 1 THEN bullets0 ELSE (bullets0 + e) % 3) |->
              BulletTexts[((e + b + v) % Len(BulletTexts)) + 1]]]],
   skills |-> [hard |-> SkillLists[v + 1], soft |-> <<>>],
   education |-> <<[degree |-> <<"B","S","c"," ","C","S">>, school |-> <<>>, dates |-> <<>>]>>,
   certifications |-> IF v < 2 THEN <<>> ELSE <<<<"C","K","A">>>>]

InjectDocuments ==
  {Document(entries, bullets0, v) :
     entries \in 0..MaxEntries, bullets0 \in BulletCounts, v \in 0..(NumVariants - 1)}

\* What Math.random will return, scaled to an index of METRIC_TEMPLATES: two
\* of the streams it can produce.
MaxDraws == 16

RandStreams ==
  {[i \in 1..MaxDraws |-> (a + b * i) % Len(METRIC_TEMPLATES)] : <<a, b>> \in {<<0, 0>>, <<2, 3>>}}

\* What performance.now() can measure between two readings.
MaxElapsed == 1


\* The text of the specification's Scenario A.
ScenarioAText ==
    <<"J","O","H","N"," ","S","M","I","T","H","\n","j","o","h","n","@","x",
      ".","c","o","m","\n","E","X","P","E","R","I","E","N","C","E","\n","A",
      "c","m","e"," ","C","o"," ","|"," ","E","n","g","i","n","e","e","r",
      " ","|"," ","2","0","2","0","-","P","r","e","s","e","n","t","\n","-",
      " ","B","u","i","l","t"," ","s","y","s","t","e","m","s",".","\n","S",
      "K","I","L","L","S","\n","P","y","t","h","o","n",","," ","G","o","\n",
      "E","D","U","C","A","T","I","O","N","\n","B","S","c"," ","C","S">>

\* A text with every header field, a summary, role lines with and without
\* dates, the bullet glyph as the source file holds it, certifications and
\* repeated skills.
FullText ==
    <<"J","a","n","e"," ","D","o","e"," ","|"," ","j","a","n","e",".","d",
      "o","e","@","m","a","i","l",".","e","x","a","m","p","l","e",".","o",
      "r","g","\n","+","3","5","3"," ","(","0",")","1"," ","2","3","4","-",
      "5","6","7","8"," ","|"," ","l","i","n","k","e","d","i","n",".","c",
      "o","m","/","i","n","/","j","a","n","e","-","d","o","e"," ","|"," ",
      "G","i","t","H","u","b",".","c","o","m","/","j","d","o","e","\n","D",
      "u","b","l","i","n",","," ","I","r","e","l","a","n","d","\n","S","U",
      "M","M","A","R","Y",":","\n","B","a","c","k","e","n","d"," ","e","n",
      "g","i","n","e","e","r",".","\n","B","u","i","l","d","s"," ","t","h",
      "i","n","g","s","\n","W","o","r","k"," ","E","x","p","e","r","i","e",
      "n","c","e","\n","2","0","1","9"," ","-"," ","2","0","2","1","\n","*",
      " ","L","e","d"," ","M","L"," ","t","e","a","m","\n","A","c","m","e",
      "-","L","a","b","s"," ","-"," ","S","e","n","i","o","r"," ","D","e",
      "v","\n","U+201A","U+00C4","U+00A2"," ","U","s","e","d"," ","G","o",
      " ","d","a","i","l","y","\n","n","o","t"," ","a"," ","b","u","l","l",
      "e","t","\n","C","E","R","T","I","F","I","C","A","T","I","O","N","S",
      "\n","-"," ","C","K","A","\n","L","i","c","e","n","s","e","\n","K",
      "E","Y"," "," ","S","K","I","L","L","S"," ",":","\n","-"," ","P","y",
      "t","h","o","n",";"," ","p","y","t","h","o","n",","," ","G","o",",",
      "x","\n","S","Q","L">>

\* A text with one role of seven bullets and a repeated skill.
BulletsText ==
    <<"A","n","n"," ","L","e","e","\n","E","x","p","e","r","i","e","n","c",
      "e",":","\n","I","n","i","t","e","c","h"," ","|"," ","D","e","v","\n",
      "-"," ","R","a","n"," ","C","I","\n","-"," ","W","r","o","t","e"," ",
      "S","Q","L",".","\n","-"," ","U","s","e","d"," ","G","i","t","\n","-",
      " ","L","e","d"," ","t","e","a","m",".","\n","-"," ","C","u","t"," ",
      "c","o","s","t","s","\n","-"," ","S","h","i","p","p","e","d",".","\n",
      "-"," ","H","i","r","e","d","\n","S","k","i","l","l","s","\n","G","o",
      ";"," ","g","o","\n">>

\* The cvText argument: not passed, empty, white space only, or a text.
TextChoices ==
  {<<>>, <<<<>>>>, <<<<" ", "\n", " ">>>>, <<ScenarioAText>>, <<FullText>>, <<BulletsText>>}

\* The keywords of the specification's Scenario B.
ScenarioBKeywords ==
  [highROI |-> <<<<"K","u","b","e","r","n","e","t","e","s">>,
               <<"T","e","r","r","a","f","o","r","m">>,
               <<"D","o","c","k","e","r">>,
               <<"A","n","s","i","b","l","e">>,
               <<"R","u","s","t">>,
               <<"G","o">>>>]

\* The keywords argument: not passed, without groups, Scenario B, and
\* groups of which the texts hold none, one in eight, two in three, or a
\* keyword written in another case.
KeywordChoices ==
  {<<>>,
   <<[n \in {} |-> n]>>,
   <<ScenarioBKeywords>>,
   <<[lowROI |-> <<<<"R","u","s","t">>, <<"K","8","s">>>>]>>,
   <<[highPriority |-> <<<<"G","o">>>>,
      lowPriority |-> <<<<"R","u","s","t">>, <<"A","I">>, <<"S","Q","L">>,
                      <<"C","I">>, <<"G","i","t">>, <<"K","8","s">>, <<"M","L">>>>]>>,
   <<[highROI |-> <<<<"G","o">>, <<"M","L">>>>, lowROI |-> <<<<"R","u","s","t">>>>]>>,
   <<[highROI |-> <<<<"g","o">>, <<"G","O">>>>, mediumPriority |-> <<<<"G","i","t">>>>,
      unclassified |-> <<<<"K","8","s">>>>, lowROI |-> <<<<"P","Y","T","H","O","N">>>>]>>}

\* The options argument: not passed, or with an override.
OptionChoices == {<<>>, <<OptionsList[2]>>}

\* The record with the field name when choice holds a value, else without.
Field(name, choice) == [f \in (IF choice = <<>> THEN {} ELSE {name}) |-> choice[1]]

PipelineArgs ==
  {Field("cvText", t) @@ Field("keywords", k) @@ Field("options", o) :
     t \in TextChoices, k \in KeywordChoices, o \in OptionChoices}

\* Archive paths, one of them with characters outside ASCII, and contents:
\* empty, ASCII, and with characters of two, three and four UTF-8 bytes.
ZipPaths ==
  <<<<"[","C","o","n","t","e","n","t","_","T","y","p","e","s","]",".","x","m",
    "l">>,
    <<"w","o","r","d","/","d","o","c","u","m","e","n","t",".","x","m","l">>,
    <<"_","r","e","l","s","/",".","r","e","l","s">>,
    <<"r", "U+00E9", "s", "u", "m", "U+00E9">>,
    <<"a">>>>

ZipContents ==
  <<<<>>,
    <<"<","w",":","t",">","G","o","<","/","w",":","t",">">>,
    <<"U+20AC", "U+00E9", "U+1F680">>,
    <<"1","2","3","4","5","6","7","8","9">>>>

MaxFiles == 2

\* The ordered mappings of at most MaxFiles distinct paths to contents.
ZipFiles ==
  {f \in SeqsUpTo({<<ZipPaths[p], ZipContents[c]>> :
                     p \in DOMAIN ZipPaths, c \in DOMAIN ZipContents}, MaxFiles) :
     \A i, j \in DOMAIN f : i # j => f[i][1] # f[j][1]}

\* Blocks of lines the texts handed to validateATSCompatibility are made
\* of: the three headings, a mention of education in running text, three
\* bullets, a stuffed bullet on one line and over two lines, an empty line.
ValidateBlocks ==
  <<<<"E","X","P","E","R","I","E","N","C","E">>,
    <<"S","k","i","l","l","s",":">>,
    <<"E","D","U","C","A","T","I","O","N">>,
    <<"A","d","u","l","t"," ","e","d","u","c","a","t","i","o","n">>,
    <<"-"," ","G","o","\n","*"," ","A","w","s","\n","-"," ","P","y">>,
    <<"-"," ","P","y","t","h","o","n"," ","A","w","s"," ","D","o","c","k",
      "e","r"," ","R","u","s","t">>,
    <<"*"," ","A","b"," ","C","d","\n","E","f"," ","G","h">>,
    <<>>>>

MaxBlocks == 3

ValidateTexts ==
  {join([i \in DOMAIN f |-> ValidateBlocks[f[i]]], <<"\n">>) :
     f \in UNION {[1..k -> DOMAIN ValidateBlocks] : k \in 1..MaxBlocks}}

\* The group names parseKeywordsToJSON reads, in the order it reads them.
GroupNames ==
  <<"highROI", "highPriority", "mediumROI", "mediumPriority", "lowROI", "lowPriority",
    "unclassified">>

MaxGroupLen == 2

\* A keywords object: every name is left out, or holds no keyword, or holds
\* MaxGroupLen keywords of its own.
KeywordObjects ==
  {[n \in {GroupNames[i] : i \in present} |->
      Window(CHOOSE i \in present : GroupNames[i] = n,
             IF (CHOOSE i \in present : GroupNames[i] = n) \in full THEN MaxGroupLen ELSE 0, 1)] :
     present \in SUBSET DOMAIN GroupNames, full \in SUBSET DOMAIN GroupNames}

\* Texts with the characters XML reserves, one of them an entity already.
XmlTexts ==
  <<<<"A","&","B">>,
    <<"<","b",">">>,
    <<"x","\"","y","'","z">>,
    <<"&","l","t",";">>,
    <<"R","&","D"," ","<","\"","Q","\"",">"," ","'","n","'">>,
    <<"p","l","a","i","n">>>>

MaxDocxEntries == 2

MaxDocxBullets == 7

\* An injected Document whose fields hold the texts a and b of XmlTexts,
\* with n experience entries; the first entry has MaxDocxBullets bullets.
DocxDocument(a, b, n) ==
  [personal |-> [name |-> XmlTexts[a],
                 location |-> XmlTexts[b],
                 email |-> <<"j","@","x",".","i","o">>,
                 phone |-> IF n = 0 THEN <<>> ELSE XmlTexts[a],
                 linkedin |-> IF a % 2 = 0 THEN <<>> ELSE XmlTexts[b],
                 github |-> IF b % 2 = 0 THEN <<>> ELSE XmlTexts[a]],
   summary |-> IF a = b THEN <<>> ELSE XmlTexts[b],
   experience |->
     [i \in 1..n |->
        [title |-> XmlTexts[a],
         company |-> XmlTexts[b],
         dates |-> IF i = 1 THEN XmlTexts[a] ELSE <<>>,
         bullets |-> [k \in 1..(IF i = 1 THEN MaxDocxBullets ELSE 1) |->
                        XmlTexts[((a + k) % Len(XmlTexts)) + 1]]]],
   skills |-> [hard |-> IF n = 0 THEN <<>> ELSE <<XmlTexts[a], XmlTexts[b]>>, soft |-> <<>>],
   education |-> [i \in 1..n |-> [degree |-> XmlTexts[b], school |-> <<>>, dates |-> <<>>]],
   certifications |-> IF b = 1 THEN <<>> ELSE <<XmlTexts[b], XmlTexts[a]>>]

DocxDocuments ==
  {DocxDocument(a, b, n) : a \in DOMAIN XmlTexts, b \in DOMAIN XmlTexts, n \in 0..MaxDocxEntries}

\* The page the engine runs in: whether it has a JSZip library, and how the
\* promise of its generateAsync settles; whether it has jspdf or jsPDF.
ExportEnvs ==
  {[JSZip |-> z, jsPDF |-> p] :
     z \in {"undefined", "resolves", "rejects"}, p \in BOOLEAN}

ExportDocuments ==
  {DocxDocument(a, 2, n) : a \in {1, 5}, n \in {0, MaxDocxEntries}}

\* The arguments of exportAllFormats: with and without a baseName.
ExportArgs ==
  {[cv |-> 1, env |-> e] : e \in ExportEnvs}
  \cup {[cv |-> 1, env |-> e, baseName |-> <<"c","v">>] : e \in ExportEnvs}

\* Two asynchronous operations started by one caller.
Procs == {1, 2}

\* The two operations started: every pair of the four, in one order.
ConcurrentOperations ==
  LET names == <<"exportAllFormats", "exportToDocx", "exportToPDF",
                 "fullInjectionPipeline">>
  IN  {<<names[i], names[j]>> : <<i, j>> \in {k \in (1..4) \X (1..4) : k[1] <= k[2]}}

\* The Document each operation is given: its own.
ConcurrentDocuments == <<DocxDocument(1, 2, 0), DocxDocument(5, 3, 1)>>

\* The arguments fullInjectionPipeline is given.
ConcurrentPipelineArgs ==
  <<[cvText |-> ScenarioAText, keywords |-> ScenarioBKeywords],
    [cvText |-> BulletsText,
     keywords |-> [highROI |-> <<<<"G","o">>, <<"M","L">>>>],
     options |-> OptionsList[2]]>>

\* The pages: without libraries, with both, with a JSZip that fails.
ConcurrentEnvs ==
  {[JSZip |-> "undefined", jsPDF |-> FALSE],
   [JSZip |-> "resolves", jsPDF |-> TRUE],
   [JSZip |-> "rejects", jsPDF |-> FALSE]}

\* What Math.random returns to the two operations, one call after the other.
ConcurrentRandom == [i \in 1..MaxDraws |-> (2 + 3 * i) % Len(METRIC_TEMPLATES)]

\* What process p is asked to run.  The page, env, is the same for both.
ConcurrentCall(p, op, env) ==
  IF op = "fullInjectionPipeline"
    THEN [op |-> op, a |-> ConcurrentPipelineArgs[p]]
    ELSE [op |-> op, cv |-> 1, env |-> env]

\* The values of CONFIG.MAX_TOTAL_INJECTIONS a caller sets, from 0 up.
MaxCap == 2

CapConfigs ==
  {[DefaultConfig EXCEPT !.MAX_TOTAL_INJECTIONS = c] : c \in 0..MaxCap}

\* Keyword sequences a caller builds by hand: the targets of a high-priority
\* keyword at position i (from 1) under each pattern.  Pattern 1 is what
\* parseKeywordsToJSON gives.
TargetPatterns == 1..4

HighTargets(pattern, i) ==
  CASE pattern = 1 -> <<"experience", "skills">>
    [] pattern = 2 -> IF i = 1 THEN <<"skills">> ELSE <<"experience", "skills">>
    [] pattern = 3 -> IF i % 2 = 1 THEN <<"experience">> ELSE <<"skills">>
    [] OTHER       -> IF i = 2 THEN <<"summary">> ELSE <<"experience", "skills">>

\* The medium-priority keywords: all for experience, or the first one for
\* skills.
MediumTargets(pattern, i) ==
  IF pattern = 2 /\ i = 1 THEN <<"skills">> ELSE <<"experience">>

TargetedHighLists ==
  {Window(1, len, 1) : len \in 0..MaxHigh} \cup {Window(3, MaxHigh, 1)}

\* The low-priority keywords: the first for the summary, as
\* parseKeywordsToJSON tags them, the others for experience and skills.
LowTargets(i) == IF i = 1 THEN <<"summary">> ELSE <<"experience", "skills">>

LowLists == {<<>>, <<<<"R","u","s","t">>, <<"S","Q","L">>>>}

TargetedKeywords ==
  {[i \in 1..Len(h) |->
      [keyword |-> h[i], priority |-> "high", targets |-> HighTargets(p, i)]]
   \o [i \in 1..Len(m) |->
      [keyword |-> m[i], priority |-> "medium", targets |-> MediumTargets(q, i)]]
   \o [i \in 1..Len(l) |->
      [keyword |-> l[i], priority |-> "low", targets |-> LowTargets(i)]] :
     <<h, p>> \in TargetedHighLists \X TargetPatterns,
     <<m, q>> \in {<<<<>>, 1>>} \cup ({Window(8, MaxMedium, 1)} \X {1, 2}),
     l \in LowLists}

\* The Documents of the runs with hand-built keywords.
TargetedDocuments ==
  {Document(entries, bullets0, v) :
     entries \in 0..MaxEntries, bullets0 \in {0, 2, MaxBullets}, v \in {1, 2}}

\* Lines of a text about experience: two headings, a role line with a
\* separator, a role line that is a date range, two bullets, a plain line.
ExperienceLinePool ==
  <<<<"E","X","P","E","R","I","E","N","C","E">>,
    <<"S","k","i","l","l","s",":">>,
    <<"A","c","m","e"," ","|"," ","D","e","v">>,
    <<"2","0","1","9"," ","-"," ","2","0","2","1">>,
    <<"-"," ","B","u","i","l","t"," ","X">>,
    <<"*"," ","L","e","d"," ","Y">>,
    <<"N","o","t","e","s">>>>

\* Lines of a text about education and certifications: three headings, a
\* line of more than five characters, a short line, a bullet, a blank line.
EducationLinePool ==
  <<<<"E","d","u","c","a","t","i","o","n">>,
    <<"C","E","R","T","I","F","I","C","A","T","I","O","N","S",":">>,
    <<"S","k","i","l","l","s">>,
    <<"B","S","c"," ","C","S"," ","C","o","r","k">>,
    <<"M","S","c">>,
    <<"*"," ","A","W","S"," ","S","A">>,
    <<" "," ">>>>

MaxLines == 3

\* The line a text starts with when it does not start with a heading.
NameLine == <<"J","a","n","e"," ","D","o","e">>

\* first followed by at most MaxLines lines of the pool.
TextsOver(first, linePool) ==
  {join(<<first>> \o ls, <<"\n">>) :
     ls \in UNION {[1..n -> {linePool[i] : i \in DOMAIN linePool}] : n \in 0..MaxLines}}

\* The texts handed to the parser: about experience, or about education and
\* certifications, with or without a heading as the first line.
ParseTexts ==
  TextsOver(ExperienceLinePool[1], ExperienceLinePool)
  \cup TextsOver(NameLine, ExperienceLinePool)
  \cup TextsOver(EducationLinePool[1], EducationLinePool)
  \cup TextsOver(NameLine, EducationLinePool)

\* The characters of the texts handed to _createPDFBlob: a letter, the
\* three characters it escapes, two control characters.
PdfAlphabet == {"a", "\\", "(", ")", "\n", "U+001F"}

MaxPdfLen == 3

\* textContent: one item with any text over the alphabet, alone or followed
\* by a centred bold item without a size.
PdfTextContents ==
  {<<PdfItem(t, 11, FALSE, 750, FALSE, 0)>> \o rest :
     t \in SeqsUpTo(PdfAlphabet, MaxPdfLen),
     rest \in {<<>>, <<PdfItem(<<"(","U+00E9",")">>, 0, TRUE, 736, TRUE, 10)>>}}

\* The Documents rendered both ways: those of DocxDocuments and one with
\* empty personal fields and an education entry without a degree.
MirrorDocuments ==
  DocxDocuments
  \cup {[emptyCV EXCEPT
           !.education = <<[degree |-> <<>>, school |-> <<>>, dates |-> <<>>],
                           [degree |-> XmlTexts[1], school |-> <<>>, dates |-> <<>>]>>]}

\* Lines of a text about the summary: two summary headings, another heading,
\* two content lines (one with spaces around it), a blank line.
SummaryLinePool ==
  <<<<"S","u","m","m","a","r","y">>,
    <<"P","R","O","F","I","L","E",":">>,
    <<"S","k","i","l","l","s">>,
    <<"B","u","i","l","d","s"," ","A","P","I","s">>,
    <<" "," ","L","e","a","d","s"," ","t","e","a","m","s"," ">>,
    <<" "," ">>>>

\* The texts handed to the parser to read the summary, with or without a
\* summary heading as the first line.
SummaryTexts ==
  TextsOver(SummaryLinePool[1], SummaryLinePool)
  \cup TextsOver(NameLine, SummaryLinePool)

\* Keyword groups for the pipeline.  Two have a high-priority list longer
\* than MAX_HIGH_PRIO_SKILLS: seven texts of which the fourth and fifth
\* repeat the first two in another case, and seven distinct texts with the
\* fourth and fifth repeated as medium-priority.  Then Scenario B, a group
\* that holds one text in two priorities and another text twice, and a
\* single low-priority text.
CoveredKeywordChoices ==
  {[highROI |-> <<<<"M","L">>, <<"K","8","s">>, <<"R","u","s","t">>, <<"m","l">>,
                  <<"k","8","s">>, <<"K","a","f","k","a">>,
                  <<"D","o","c","k","e","r">>>>],
   [highROI |-> <<<<"M","L">>, <<"K","8","s">>, <<"R","u","s","t">>, <<"A","I">>,
                  <<"K","a","f","k","a">>, <<"D","o","c","k","e","r">>,
                  <<"S","p","a","r","k">>>>,
    mediumROI |-> <<<<"a","i">>, <<"k","a","f","k","a">>>>],
   ScenarioBKeywords,
   [highROI |-> <<<<"G","o">>, <<"M","L">>>>,
    mediumROI |-> <<<<"G","i","t">>, <<"C","I">>>>,
    lowROI |-> <<<<"R","u","s","t">>, <<"G","o">>, <<"R","u","s","t">>>>],
   [lowROI |-> <<<<"R","u","s","t">>>>]}

\* The arguments of the pipeline runs that look at the covered keywords; the
\* first text is a name only and parses to a Document without skills and
\* without experience.
CoveredArgs ==
  {[cvText |-> t, keywords |-> k] @@ Field("options", o) :
     t \in {NameLine, ScenarioAText, FullText, BulletsText}, k \in CoveredKeywordChoices,
     o \in OptionChoices}

\* The files handed to FileAttacher and the files a page can hold already.
CvFile == [name |-> <<"c","v",".","p","d","f">>, size |-> 9]

CoverFile == [name |-> <<"c","o","v","e","r",".","p","d","f">>, size |-> 7]

LazyFile == [name |-> <<"L","a","z","y","A","p","p","l","y","_","C","V",".","p","d","f">>, size |-> 5]

OldFile == [name |-> <<"o","l","d",".","p","d","f">>, size |-> 3]

FileInput(label, name, parents, files) ==
  [label |-> label, name |-> name, parents |-> parents, files |-> files]

\* The file inputs a page is made of: one labelled for the resume, one for
\* the cover letter, one without a telling context, one whose ancestor
\* names both, one holding a LazyApply file, one for the resume holding
\* another file.
InputKinds ==
  {FileInput(<<"R","e","s","u","m","e">>, <<"r","e","s","u","m","e">>, <<>>, <<>>),
   FileInput(<<"C","o","v","e","r"," ","l","e","t","t","e","r">>, <<>>, <<>>, <<>>),
   FileInput(<<>>, <<"f","i","l","e">>, <<<<"U","p","l","o","a","d">>>>, <<>>),
   FileInput(<<>>, <<"f","i","l","e">>, <<<<"U","p","l","o","a","d">>, <<"C","V"," ","a","n","d"," ","c","o","v","e","r"," ","l","e","t","t","e","r">>>>, <<>>),
   FileInput(<<>>, <<"f","i","l","e">>, <<<<"U","p","l","o","a","d">>>>, <<LazyFile>>),
   FileInput(<<"R","e","s","u","m","e">>, <<"r","e","s","u","m","e">>, <<>>, <<OldFile>>)}

MaxInputs == 3

\* The pages: at most MaxInputs file inputs in document order.
Pages == SeqsUpTo(InputKinds, MaxInputs)

\* The arguments of attachFilesToForm: each file present or not.
AttachArgs ==
  {[cvFile |-> c, coverFile |-> v, options |-> [n \in {} |-> n]] :
     c \in {null, CvFile}, v \in {null, CoverFile}}

\* A file of the CV's name the page holds already.
StaleCvFile == [name |-> CvFile.name, size |-> 4]

\* The file inputs a monitored page is made of: those of InputKinds and a
\* resume input that holds a file of the CV's name.
MonitorKinds ==
  InputKinds
    \cup {FileInput(<<"R","e","s","u","m","e">>, <<"r","e","s","u","m","e">>, <<>>, <<StaleCvFile>>)}

\* The pages startAttachmentMonitor starts on: they can grow to MaxInputs
\* file inputs while it runs.
MonitorPages == SeqsUpTo(MonitorKinds, MaxInputs - 1)

\* The values of maxDuration, in milliseconds.
MonitorDurations == {1, 2}

\* The clock stops MaxLate milliseconds after the longest maxDuration.
MaxLate == 2

\* The number of requestAnimationFrame calls followed.
MaxFrames == 3

\* The arguments of startAttachmentMonitor: the CV, the cover letter or
\* both.
MonitorArgs ==
  {a \in {[cvFile |-> c, coverFile |-> v, maxDuration |-> d] :
            c \in {null, CvFile}, v \in {null, CoverFile}, d \in MonitorDurations} :
     a.cvFile # null \/ a.coverFile # null}

(***************************************************************************)
(* Specifications                                                          *)
(***************************************************************************)

\* _crc32 applied to a byte buffer.
InitCrc ==
  /\ pc = "_crc32"
  /\ CONFIG = DefaultConfig
  /\ args \in {[data |-> d] : d \in CrcInputs}
  /\ heap = None
  /\ rand = <<>>
  /\ result = None
  /\ console = <<>>

Crc32Call ==
  /\ pc = "_crc32"
  /\ result' = [value |-> _crc32(args.data)]
  /\ pc' = "done"
  /\ UNCHANGED <<CONFIG, args, heap, rand, console>>

NextCrc == Crc32Call

SpecCrc == InitCrc /\ [][NextCrc]_vars

\* injectKeywords called on a Document the caller holds, then the returned
\* Document rendered as plain text.
InitInject ==
  /\ pc = "injectKeywords"
  /\ CONFIG = DefaultConfig
  /\ \E d \in InjectDocuments, g \in KeywordGroups :
       /\ heap = <<d>>
       /\ args = [cv |-> 1, keywords |-> parseKeywordsToJSON(g),
                  options |-> OptionsList[(Len(d.experience) % Len(OptionsList)) + 1]]
  /\ rand \in RandStreams
  /\ result = None
  /\ console = <<>>

InjectCall ==
  /\ pc = "injectKeywords"
  /\ \E elapsed \in 0..MaxElapsed :
       \E r \in {injectKeywords(heap, args.cv, args.keywords, args.options,
                                rand, CONFIG, elapsed)} :
           /\ heap' = r.heap
           /\ result' = [cv |-> r.cv, stats |-> r.stats, text |-> <<>>]
           /\ rand' = SubSeq(rand, r.draws + 1, Len(rand))
           /\ console' = Append(console, r.log)
  /\ pc' = "exportToDocxText"
  /\ UNCHANGED <<CONFIG, args>>

ExportCall ==
  /\ pc = "exportToDocxText"
  /\ result' = [result EXCEPT !.text = exportToDocxText(heap[result.cv])]
  /\ pc' = "done"
  /\ UNCHANGED <<CONFIG, args, heap, rand, console>>

NextInject == InjectCall \/ ExportCall

SpecInject == InitInject /\ [][NextInject]_vars

\* fullInjectionPipeline called once.  The function is async but awaits
\* nothing: it runs to its return in one step.
InitPipeline ==
  /\ pc = "fullInjectionPipeline"
  /\ CONFIG = DefaultConfig
  /\ args \in PipelineArgs
  /\ heap = <<>>
  /\ rand \in RandStreams
  /\ result = None
  /\ console = <<>>

FullInjectionPipelineCall ==
  /\ pc = "fullInjectionPipeline"
  /\ \E inner \in 0..MaxElapsed, outer \in 0..MaxElapsed :
       /\ inner <= outer
       /\ \E r \in {fullInjectionPipeline(args, rand, CONFIG, inner, outer)} :
              /\ heap' = r.heap
              /\ result' = r.result
              /\ rand' = SubSeq(rand, r.draws + 1, Len(rand))
              /\ console' = console \o r.log
  /\ pc' = "done"
  /\ UNCHANGED <<CONFIG, args>>

NextPipeline == FullInjectionPipelineCall

SpecPipeline == InitPipeline /\ [][NextPipeline]_vars

\* _createMinimalZip called on a mapping of paths to contents.
InitZip ==
  /\ pc = "_createMinimalZip"
  /\ CONFIG = DefaultConfig
  /\ args \in {[files |-> f] : f \in ZipFiles}
  /\ heap = None
  /\ rand = <<>>
  /\ result = None
  /\ console = <<>>

CreateMinimalZipCall ==
  /\ pc = "_createMinimalZip"
  /\ result' = _createMinimalZip(args.files)
  /\ pc' = "done"
  /\ UNCHANGED <<CONFIG, args, heap, rand, console>>

NextZip == CreateMinimalZipCall

SpecZip == InitZip /\ [][NextZip]_vars

\* validateATSCompatibility called on a text.
InitValidate ==
  /\ pc = "validateATSCompatibility"
  /\ CONFIG = DefaultConfig
  /\ args \in {[cvText |-> t] : t \in ValidateTexts}
  /\ heap = <<>>
  /\ rand = <<>>
  /\ result = None
  /\ console = <<>>

ValidateCall ==
  /\ pc = "validateATSCompatibility"
  /\ \E r \in {validateATSCompatibility(args.cvText)} : result' = r
  /\ pc' = "done"
  /\ UNCHANGED <<CONFIG, args, heap, rand, console>>

NextValidate == ValidateCall

SpecValidate == InitValidate /\ [][NextValidate]_vars

\* parseKeywordsToJSON called on a keywords object.
InitKeywords ==
  /\ pc = "parseKeywordsToJSON"
  /\ CONFIG = DefaultConfig
  /\ args \in {[keywords |-> k] : k \in KeywordObjects}
  /\ heap = <<>>
  /\ rand = <<>>
  /\ result = None
  /\ console = <<>>

ParseKeywordsCall ==
  /\ pc = "parseKeywordsToJSON"
  /\ \E r \in {parseKeywordsToJSON(args.keywords)} : result' = [value |-> r]
  /\ pc' = "done"
  /\ UNCHANGED <<CONFIG, args, heap, rand, console>>

NextKeywords == ParseKeywordsCall

SpecKeywords == InitKeywords /\ [][NextKeywords]_vars

\* _buildDocxXML called on a Document.
InitDocxXML ==
  /\ pc = "_buildDocxXML"
  /\ CONFIG = DefaultConfig
  /\ \E d \in DocxDocuments : heap = <<d>>
  /\ args = [cv |-> 1]
  /\ rand = <<>>
  /\ result = None
  /\ console = <<>>

BuildDocxXMLCall ==
  /\ pc = "_buildDocxXML"
  /\ \E r \in {_buildDocxXML(heap[args.cv])} : result' = [files |-> r]
  /\ pc' = "done"
  /\ UNCHANGED <<CONFIG, args, heap, rand, console>>

NextDocxXML == BuildDocxXMLCall

SpecDocxXML == InitDocxXML /\ [][NextDocxXML]_vars

\* exportAllFormats called on a Document.  heap holds the Document, the
\* engine, and then the promise the call awaits.
InitExportAll ==
  /\ pc = "exportAllFormats"
  /\ CONFIG = DefaultConfig
  /\ args \in ExportArgs
  /\ \E d \in ExportDocuments : heap = <<d, NewEngine>>
  /\ rand = <<>>
  /\ result = None
  /\ console = <<>>

\* The call up to the await inside exportToDocx.
ExportAllFormatsCall ==
  /\ pc = "exportAllFormats"
  /\ \E r \in {ExportToDocxStart(heap[2], heap[args.cv], args.env)} :
       /\ heap' = <<heap[1], r.this, r.promise>>
       /\ console' = console
                     \o <<[message |-> "[CVInjector] Exporting all formats"]>>
                     \o r.log
  /\ result' = [success |-> TRUE, files |-> <<>>]
  /\ pc' = "exportToDocx"
  /\ UNCHANGED <<CONFIG, args, rand>>

\* exportToDocx resumes and returns.
ExportToDocxReturn ==
  /\ pc = "exportToDocx"
  /\ \E elapsed \in 0..MaxElapsed :
       \E r \in {ExportToDocxResume(heap[3], elapsed)} :
         /\ heap' = [heap EXCEPT ![3] = r.promise]
         /\ console' = console \o r.log
  /\ pc' = "exportAllFormats:exportToDocx"
  /\ UNCHANGED <<CONFIG, args, rand, result>>

\* exportAllFormats resumes after exportToDocx.
ExportAllFormatsDocxDone ==
  /\ pc = "exportAllFormats:exportToDocx"
  /\ \E elapsed \in 0..MaxElapsed :
       \E r \in {ExportAllFormatsAfterDocx(result, heap[3], heap[args.cv],
                                           BaseNameOf(args), args.env, elapsed)} :
         /\ result' = r.results
         /\ heap' = [heap EXCEPT ![3] = r.promise]
         /\ console' = console \o r.log
         /\ pc' = r.pc
  /\ UNCHANGED <<CONFIG, args, rand>>

\* exportAllFormats resumes after exportToPDF and returns.
ExportAllFormatsPDFDone ==
  /\ pc = "exportAllFormats:exportToPDF"
  /\ \E r \in {ExportAllFormatsAfterPDF(result, heap[3], heap[args.cv],
                                        BaseNameOf(args))} :
       /\ result' = r.results
       /\ console' = console \o r.log
  /\ heap' = [heap EXCEPT ![3] = None]
  /\ pc' = "done"
  /\ UNCHANGED <<CONFIG, args, rand>>

NextExportAll ==
  \/ ExportAllFormatsCall
  \/ ExportToDocxReturn
  \/ ExportAllFormatsDocxDone
  \/ ExportAllFormatsPDFDone

SpecExportAll == InitExportAll /\ [][NextExportAll]_vars

\* Two operations of one engine, each on its own input, their steps
\* interleaved at the awaits.  Every reading of the clock measures
\* MaxElapsed.  heap.this is the engine both use; heap.frame[p]
\* holds the objects and the awaited promise of process p.
InitConcurrent ==
  /\ pc = [p \in Procs |-> "call"]
  /\ CONFIG = DefaultConfig
  /\ \E env \in ConcurrentEnvs, ops \in ConcurrentOperations :
       args = [p \in Procs |-> ConcurrentCall(p, ops[p], env)]
  /\ heap = [this |-> NewEngine,
             frame |-> [p \in Procs |->
                          [objects |-> <<ConcurrentDocuments[p]>>, promise |-> None]]]
  /\ rand = ConcurrentRandom
  /\ result = [p \in Procs |-> None]
  /\ console = <<>>

\* fullInjectionPipeline awaits nothing: it runs to its return.
ConcurrentPipeline(p) ==
  /\ pc[p] = "call"
  /\ args[p].op = "fullInjectionPipeline"
  /\ \E inner \in {MaxElapsed}, outer \in {MaxElapsed} :
       /\ inner <= outer
       /\ \E r \in {fullInjectionPipeline(args[p].a, rand, CONFIG, inner, outer)} :
              /\ heap' = [heap EXCEPT !.frame[p].objects = r.heap]
              /\ result' = [result EXCEPT ![p] = r.result]
              /\ rand' = SubSeq(rand, r.draws + 1, Len(rand))
              /\ console' = console \o r.log
  /\ pc' = [pc EXCEPT ![p] = "done"]
  /\ UNCHANGED <<CONFIG, args>>

\* exportToPDF awaits nothing either.
ConcurrentExportToPDF(p) ==
  /\ pc[p] = "call"
  /\ args[p].op = "exportToPDF"
  /\ \E elapsed \in {MaxElapsed} :
       \E r \in {exportToPDF(heap.frame[p].objects[args[p].cv], args[p].env, elapsed)} :
         /\ result' = [result EXCEPT ![p] = r.promise]
         /\ console' = console \o r.log
  /\ pc' = [pc EXCEPT ![p] = "done"]
  /\ UNCHANGED <<CONFIG, args, heap, rand>>

\* exportToDocx, called by the caller or by exportAllFormats, up to its await.
ConcurrentExportToDocxCall(p) ==
  /\ pc[p] = "call"
  /\ args[p].op \in {"exportToDocx", "exportAllFormats"}
  /\ \E r \in {ExportToDocxStart(heap.this, heap.frame[p].objects[args[p].cv],
                                 args[p].env)} :
       /\ heap' = [heap EXCEPT !.this = r.this, !.frame[p].promise = r.promise]
       /\ console' = console
                     \o (IF args[p].op = "exportAllFormats"
                           THEN <<[message |-> "[CVInjector] Exporting all formats"]>>
                           ELSE <<>>)
                     \o r.log
  /\ result' = [result EXCEPT ![p] = IF args[p].op = "exportAllFormats"
                                       THEN [success |-> TRUE, files |-> <<>>]
                                       ELSE @]
  /\ pc' = [pc EXCEPT ![p] = "exportToDocx"]
  /\ UNCHANGED <<CONFIG, args, rand>>

\* exportToDocx resumes and returns, to the caller or to exportAllFormats.
ConcurrentExportToDocxReturn(p) ==
  /\ pc[p] = "exportToDocx"
  /\ \E elapsed \in {MaxElapsed} :
       \E r \in {ExportToDocxResume(heap.frame[p].promise, elapsed)} :
         /\ console' = console \o r.log
         /\ IF args[p].op = "exportToDocx"
              THEN /\ result' = [result EXCEPT ![p] = r.promise]
                   /\ heap' = [heap EXCEPT !.frame[p].promise = None]
                   /\ pc' = [pc EXCEPT ![p] = "done"]
              ELSE /\ result' = result
                   /\ heap' = [heap EXCEPT !.frame[p].promise = r.promise]
                   /\ pc' = [pc EXCEPT ![p] = "exportAllFormats:exportToDocx"]
  /\ UNCHANGED <<CONFIG, args, rand>>

\* exportAllFormats resumes after exportToDocx.
ConcurrentDocxDone(p) ==
  /\ pc[p] = "exportAllFormats:exportToDocx"
  /\ \E elapsed \in {MaxElapsed} :
       \E r \in {ExportAllFormatsAfterDocx(result[p], heap.frame[p].promise,
                                           heap.frame[p].objects[args[p].cv],
                                           BaseNameOf(args[p]), args[p].env, elapsed)} :
         /\ result' = [result EXCEPT ![p] = r.results]
         /\ heap' = [heap EXCEPT !.frame[p].promise = r.promise]
         /\ console' = console \o r.log
         /\ pc' = [pc EXCEPT ![p] = r.pc]
  /\ UNCHANGED <<CONFIG, args, rand>>

\* exportAllFormats resumes after exportToPDF and returns.
ConcurrentPDFDone(p) ==
  /\ pc[p] = "exportAllFormats:exportToPDF"
  /\ \E r \in {ExportAllFormatsAfterPDF(result[p], heap.frame[p].promise,
                                        heap.frame[p].objects[args[p].cv],
                                        BaseNameOf(args[p]))} :
       /\ result' = [result EXCEPT ![p] = r.results]
       /\ console' = console \o r.log
  /\ heap' = [heap EXCEPT !.frame[p].promise = None]
  /\ pc' = [pc EXCEPT ![p] = "done"]
  /\ UNCHANGED <<CONFIG, args, rand>>

NextConcurrent ==
  \E p \in Procs :
    \/ ConcurrentPipeline(p)
    \/ ConcurrentExportToPDF(p)
    \/ ConcurrentExportToDocxCall(p)
    \/ ConcurrentExportToDocxReturn(p)
    \/ ConcurrentDocxDone(p)
    \/ ConcurrentPDFDone(p)

SpecConcurrent == InitConcurrent /\ [][NextConcurrent]_vars

\* exportToDocxText called twice on one Document.
InitRender ==
  /\ pc = "exportToDocxText"
  /\ CONFIG = DefaultConfig
  /\ args = [cv |-> 1]
  /\ \E d \in InjectDocuments \cup ExportDocuments : heap = <<d>>
  /\ rand = <<>>
  /\ result = None
  /\ console = <<>>

RenderCall ==
  /\ pc = "exportToDocxText"
  /\ \E text \in {exportToDocxText(heap[args.cv])} : result' = [first |-> text]
  /\ heap' = [heap EXCEPT ![args.cv] = DocumentAfterExport(@)]
  /\ pc' = "exportToDocxText:again"
  /\ UNCHANGED <<CONFIG, args, rand, console>>

RenderAgainCall ==
  /\ pc = "exportToDocxText:again"
  /\ \E text \in {exportToDocxText(heap[args.cv])} :
       result' = [first |-> result.first, second |-> text]
  /\ heap' = [heap EXCEPT ![args.cv] = DocumentAfterExport(@)]
  /\ pc' = "done"
  /\ UNCHANGED <<CONFIG, args, rand, console>>

NextRender == RenderCall \/ RenderAgainCall

SpecRender == InitRender /\ [][NextRender]_vars

\* injectKeywords on an engine whose MAX_TOTAL_INJECTIONS the caller has
\* set, then the plain text: the steps of SpecInject.
InitInjectCap ==
  /\ pc = "injectKeywords"
  /\ CONFIG \in CapConfigs
  /\ \E d \in InjectDocuments, h \in HighLists :
       /\ heap = <<d>>
       /\ args = [cv |-> 1, keywords |-> parseKeywordsToJSON([highROI |-> h]),
                  options |-> OptionsList[1]]
  /\ rand = ConcurrentRandom
  /\ result = None
  /\ console = <<>>

SpecInjectCap == InitInjectCap /\ [][NextInject]_vars

\* injectKeywords called with a keyword sequence the caller built, then the
\* plain text: the steps of SpecInject.
InitInjectTargeted ==
  /\ pc = "injectKeywords"
  /\ CONFIG = DefaultConfig
  /\ \E d \in TargetedDocuments, k \in TargetedKeywords :
       /\ heap = <<d>>
       /\ args = [cv |-> 1, keywords |-> k,
                  options |-> OptionsList[(Len(d.experience) % Len(OptionsList)) + 1]]
  /\ rand = ConcurrentRandom
  /\ result = None
  /\ console = <<>>

SpecInjectTargeted == InitInjectTargeted /\ [][NextInject]_vars

\* parseCVToJSON called on a text.
InitParse ==
  /\ pc = "parseCVToJSON"
  /\ CONFIG = DefaultConfig
  /\ \E t \in ParseTexts : args = [cvText |-> t]
  /\ heap = <<>>
  /\ rand = <<>>
  /\ result = None
  /\ console = <<>>

ParseCall ==
  /\ pc = "parseCVToJSON"
  /\ \E r \in {parseCVToJSON(args)} :
       /\ result' = [cv |-> r.cv]
       /\ console' = console \o r.log
  /\ pc' = "done"
  /\ UNCHANGED <<CONFIG, args, heap, rand>>

NextParse == ParseCall

SpecParse == InitParse /\ [][NextParse]_vars

\* _createPDFBlob called on a list of text items.
InitPdfBlob ==
  /\ pc = "_createPDFBlob"
  /\ CONFIG = DefaultConfig
  /\ \E t \in PdfTextContents : args = [textContent |-> t]
  /\ heap = <<>>
  /\ rand = <<>>
  /\ result = None
  /\ console = <<>>

CreatePDFBlobCall ==
  /\ pc = "_createPDFBlob"
  /\ \E r \in {_createPDFBlob(args.textContent)} : result' = r
  /\ pc' = "done"
  /\ UNCHANGED <<CONFIG, args, heap, rand, console>>

NextPdfBlob == CreatePDFBlobCall

SpecPdfBlob == InitPdfBlob /\ [][NextPdfBlob]_vars

\* One Document rendered as the DOCX parts and then as plain text.
InitMirror ==
  /\ pc = "_buildDocxXML"
  /\ CONFIG = DefaultConfig
  /\ \E d \in MirrorDocuments : heap = <<d>>
  /\ args = [cv |-> 1]
  /\ rand = <<>>
  /\ result = None
  /\ console = <<>>

MirrorDocxCall ==
  /\ pc = "_buildDocxXML"
  /\ \E r \in {_buildDocxXML(heap[args.cv])} : result' = [files |-> r, text |-> <<>>]
  /\ pc' = "exportToDocxText"
  /\ UNCHANGED <<CONFIG, args, heap, rand, console>>

MirrorTextCall ==
  /\ pc = "exportToDocxText"
  /\ \E r \in {exportToDocxText(heap[args.cv])} : result' = [result EXCEPT !.text = r]
  /\ pc' = "done"
  /\ UNCHANGED <<CONFIG, args, heap, rand, console>>

NextMirror == MirrorDocxCall \/ MirrorTextCall

SpecMirror == InitMirror /\ [][NextMirror]_vars

\* parseCVToJSON on one text about the summary.
InitParseSummary ==
  /\ pc = "parseCVToJSON"
  /\ CONFIG = DefaultConfig
  /\ \E t \in SummaryTexts : args = [cvText |-> t]
  /\ heap = <<>>
  /\ rand = <<>>
  /\ result = None
  /\ console = <<>>

SpecParseSummary == InitParseSummary /\ [][NextParse]_vars

\* fullInjectionPipeline called once with long keyword lists.
InitCovered ==
  /\ pc = "fullInjectionPipeline"
  /\ CONFIG = DefaultConfig
  /\ args \in CoveredArgs
  /\ heap = <<>>
  /\ rand \in RandStreams
  /\ result = None
  /\ console = <<>>

SpecCovered == InitCovered /\ [][NextPipeline]_vars

\* injectKeywords called twice on the same Document, keywords and options;
\* the second call goes on with the draws the first one left.
InitTwoRuns ==
  /\ pc = "injectKeywords"
  /\ CONFIG = DefaultConfig
  /\ \E d \in TargetedDocuments, g \in KeywordGroups :
       /\ heap = <<d>>
       /\ args = [cv |-> 1, keywords |-> parseKeywordsToJSON(g),
                  options |-> OptionsList[(Len(d.experience) % Len(OptionsList)) + 1]]
  /\ rand \in RandStreams
  /\ result = None
  /\ console = <<>>

TwoRunsFirstCall ==
  /\ pc = "injectKeywords"
  /\ \E r \in {injectKeywords(heap, args.cv, args.keywords, args.options,
                              rand, CONFIG, 0)} :
       /\ heap' = r.heap
       /\ result' = [cv |-> r.cv, stats |-> r.stats]
       /\ rand' = SubSeq(rand, r.draws + 1, Len(rand))
       /\ console' = Append(console, r.log)
  /\ pc' = "injectKeywordsAgain"
  /\ UNCHANGED <<CONFIG, args>>

TwoRunsSecondCall ==
  /\ pc = "injectKeywordsAgain"
  /\ \E elapsed \in 0..MaxElapsed :
       \E r \in {injectKeywords(heap, args.cv, args.keywords, args.options,
                                rand, CONFIG, elapsed)} :
           /\ heap' = r.heap
           /\ result' = result @@ [again |-> [cv |-> r.cv, stats |-> r.stats]]
           /\ rand' = SubSeq(rand, r.draws + 1, Len(rand))
           /\ console' = Append(console, r.log)
  /\ pc' = "done"
  /\ UNCHANGED <<CONFIG, args>>

NextTwoRuns == TwoRunsFirstCall \/ TwoRunsSecondCall

SpecTwoRuns == InitTwoRuns /\ [][NextTwoRuns]_vars

\* One Document rendered as the PDF and then as plain text.
InitPdfMirror ==
  /\ pc = "_buildPDFContent"
  /\ CONFIG = DefaultConfig
  /\ \E d \in MirrorDocuments : heap = <<d>>
  /\ args = [cv |-> 1]
  /\ rand = <<>>
  /\ result = None
  /\ console = <<>>

BuildPDFContentCall ==
  /\ pc = "_buildPDFContent"
  /\ \E r \in {_buildPDFContent(heap[args.cv])} :
       result' = [type |-> r.type, bytes |-> r.bytes, text |-> <<>>]
  /\ pc' = "exportToDocxText"
  /\ UNCHANGED <<CONFIG, args, heap, rand, console>>

NextPdfMirror == BuildPDFContentCall \/ MirrorTextCall

SpecPdfMirror == InitPdfMirror /\ [][NextPdfMirror]_vars

\* FileAttacher.attachFilesToForm called once on a page.  heap holds the
\* page's file inputs and FileAttacher.pipelineState.  The function is
\* async: it runs to its first await, then to its second, then to its
\* return.  revealHiddenInputs changes styles and clicks buttons, and
\* syncWithJobGeniePipeline writes to chrome.storage after the return:
\* neither touches a file input's files or the object returned.
InitAttach ==
  /\ pc = "attachFilesToForm"
  /\ CONFIG = DefaultConfig
  /\ args \in AttachArgs
  /\ \E page \in Pages : heap = [document |-> page, pipelineState |-> pipelineState]
  /\ rand = <<>>
  /\ result = None
  /\ console = <<>>

AttachFilesToFormCall ==
  /\ pc = "attachFilesToForm"
  /\ \E r \in {removeLazyApplyFiles(heap.document)} :
       /\ heap' = [heap EXCEPT !.document = r.document]
       /\ result' = [lazyApplyRemoved |-> r.removed]
  /\ console' = Append(console, [message |-> "[FileAttacher] Starting TURBO file attachment..."])
  /\ pc' = "attachFilesToForm: attach"
  /\ UNCHANGED <<CONFIG, args, rand>>

AttachFilesToFormAttach ==
  /\ pc = "attachFilesToForm: attach"
  /\ \E cv \in {IF args.cvFile # null
                  THEN attachToFirstMatch(heap.document, args.cvFile, "cv")
                  ELSE [document |-> heap.document, value |-> FALSE, log |-> <<>>]} :
       \E cover \in {IF args.coverFile # null
                       THEN attachToCoverField(cv.document, args.coverFile)
                       ELSE [document |-> cv.document, value |-> FALSE, log |-> <<>>]} :
         /\ heap' = [heap EXCEPT !.document = cover.document]
         /\ result' = [lazyApplyRemoved |-> result.lazyApplyRemoved,
                       cvResult |-> cv.value, coverResult |-> cover.value]
         /\ console' = console \o cv.log \o cover.log
  /\ pc' = "attachFilesToForm: results"
  /\ UNCHANGED <<CONFIG, args, rand>>

AttachFilesToFormReturn ==
  /\ pc = "attachFilesToForm: results"
  /\ \E timing \in 0..MaxElapsed :
       LET cvAttached    == args.cvFile # null /\ result.cvResult
           coverAttached == args.coverFile # null /\ result.coverResult
           errors ==
             (IF args.cvFile # null /\ ~result.cvResult
                THEN <<"CV field not found">> ELSE <<>>)
             \o (IF args.coverFile # null /\ ~result.coverResult
                   THEN <<"Cover Letter field not found">> ELSE <<>>)
       IN  /\ result' = [cvAttached |-> cvAttached, coverAttached |-> coverAttached,
                         lazyApplyRemoved |-> result.lazyApplyRemoved,
                         errors |-> errors, jobGenieSynced |-> FALSE,
                         timing |-> timing]
           /\ heap' = [heap EXCEPT !.pipelineState =
                         [cvAttached |-> cvAttached,
                          coverAttached |-> coverAttached,
                          lastAttachedFiles |->
                            [cvFile |-> args.cvFile, coverFile |-> args.coverFile],
                          jobGenieReady |-> cvAttached \/ coverAttached]]
           /\ console' = console
                \o (IF cvAttached
                      THEN <<[message |-> "[FileAttacher] CV attached:",
                              name |-> args.cvFile.name]>> ELSE <<>>)
                \o (IF coverAttached
                      THEN <<[message |-> "[FileAttacher] Cover Letter attached:",
                              name |-> args.coverFile.name]>> ELSE <<>>)
                \o <<[message |-> "[FileAttacher] TURBO attachment complete",
                      timing |-> timing]>>
  /\ pc' = "done"
  /\ UNCHANGED <<CONFIG, args, rand>>

NextAttach == AttachFilesToFormCall \/ AttachFilesToFormAttach \/ AttachFilesToFormReturn

SpecAttach == InitAttach /\ [][NextAttach]_vars

\* FileAttacher.startAttachmentMonitor called once on a page.  heap holds
\* the page's file inputs, the closure's attached, the animation-frame
\* callbacks requested and not yet run (by request id, nextFrame being the
\* id the next request gets), whether the MutationObserver is connected,
\* whether the timeout is pending, and Date.now() - startTime.  After the
\* call returns the browser runs the callbacks in any order.
InitMonitor ==
  /\ pc = "startAttachmentMonitor"
  /\ CONFIG = DefaultConfig
  /\ args \in MonitorArgs
  /\ \E page \in MonitorPages :
       heap = [document |-> page, attached |-> [cv |-> FALSE, cover |-> FALSE],
               frames |-> {}, nextFrame |-> 1, observer |-> FALSE,
               timeout |-> FALSE, elapsed |-> 0]
  /\ rand = <<>>
  /\ result = None
  /\ console = <<>>

\* checkAndAttach() run on the heap: the heap afterwards, a requested frame
\* added to the pending ones.
RunCheckAndAttach(h) ==
  LET r == checkAndAttach(h.document, h.attached, args.cvFile, args.coverFile,
                          args.maxDuration, h.elapsed)
  IN  [heap |-> [h EXCEPT !.document = r.document,
                          !.attached = r.attached,
                          !.frames = IF r.requested THEN @ \cup {h.nextFrame} ELSE @,
                          !.nextFrame = IF r.requested THEN @ + 1 ELSE @],
       requested |-> r.requested, log |-> r.log]

\* The call itself: checkAndAttach(), the observer and the timeout.
StartAttachmentMonitorCall ==
  /\ pc = "startAttachmentMonitor"
  /\ \E r \in {RunCheckAndAttach(heap)} :
       /\ heap' = [r.heap EXCEPT !.observer = TRUE, !.timeout = TRUE]
       /\ console' = console \o r.log
  /\ result' = [value |-> "undefined"]
  /\ pc' = "event loop"
  /\ UNCHANGED <<CONFIG, args, rand>>

\* The browser runs one requested animation-frame callback.
AnimationFrameCallback ==
  /\ pc = "event loop"
  /\ \E id \in heap.frames :
       \E r \in {RunCheckAndAttach([heap EXCEPT !.frames = @ \ {id}])} :
         /\ r.requested => heap.nextFrame <= MaxFrames
         /\ heap' = r.heap
         /\ console' = console \o r.log
  /\ UNCHANGED <<pc, CONFIG, args, rand, result>>

\* The page adds a file input; the observer's callback runs if it is
\* connected.
MutationObserverCallback ==
  /\ pc = "event loop"
  /\ Len(heap.document) < MaxInputs
  /\ \E input \in MonitorKinds :
       LET grown == [heap EXCEPT !.document = Append(@, input)]
       IN  IF ~heap.observer
             THEN heap' = grown /\ console' = console
           ELSE IF ~heap.attached.cv \/ ~heap.attached.cover
             THEN \E r \in {RunCheckAndAttach(grown)} :
                    /\ r.requested => heap.nextFrame <= MaxFrames
                    /\ heap' = r.heap
                    /\ console' = console \o r.log
           ELSE heap' = [grown EXCEPT !.observer = FALSE] /\ console' = console
  /\ UNCHANGED <<pc, CONFIG, args, rand, result>>

\* The timeout fires once maxDuration has gone by.
TimeoutCallback ==
  /\ pc = "event loop"
  /\ heap.timeout
  /\ heap.elapsed >= args.maxDuration
  /\ heap' = [heap EXCEPT !.observer = FALSE, !.timeout = FALSE]
  /\ UNCHANGED <<pc, CONFIG, args, rand, result, console>>

\* A millisecond goes by.
Tick ==
  /\ pc = "event loop"
  /\ heap.elapsed < Max(MonitorDurations) + MaxLate
  /\ heap' = [heap EXCEPT !.elapsed = @ + 1]
  /\ UNCHANGED <<pc, CONFIG, args, rand, result, console>>

NextMonitor ==
  \/ StartAttachmentMonitorCall
  \/ AnimationFrameCallback
  \/ MutationObserverCallback
  \/ TimeoutCallback
  \/ Tick

SpecMonitor == InitMonitor /\ [][NextMonitor]_vars

(***************************************************************************)
(* Claims                                                                  *)
(***************************************************************************)

\* injectKeywords has returned: result holds the reference and the stats.
Injected == "stats" \in DOMAIN result

\* No two entries of arr are equal once lower-cased.
DistinctIgnoringCase(arr) ==
  \A i, j \in DOMAIN arr : i < j => toLowerCase(arr[i]) # toLowerCase(arr[j])

\* C1: injectKeywords never mutates its input: across the call the caller's
\* Document (and every object that existed before) keeps its value, and the
\* returned Document is another object.
C1_InputNotMutated ==
  [][pc = "injectKeywords" =>
       /\ \A r \in DOMAIN heap : r \in DOMAIN heap' /\ heap'[r] = heap[r]
       /\ result'.cv \notin DOMAIN heap]_vars

C1_Witness ==
  /\ Injected
  /\ result.stats.totalInjections > 0
  /\ result.stats.skillsAdded > 0
  /\ heap[result.cv] # heap[args.cv]

\* C2: the Document returned by injectKeywords has no two skills.hard entries
\* that are equal under case-insensitive comparison.
C2_SkillsDistinctIgnoringCase ==
  Injected => DistinctIgnoringCase(heap[result.cv].skills.hard)

\* C3: with the default configuration, stats.totalInjections <= 15.
C3_InjectionCap ==
  (Injected /\ CONFIG = DefaultConfig) => result.stats.totalInjections <= 15

\* A run that modified bullets, created the new bullet and left bullets alone.
C3_Witness ==
  /\ Injected
  /\ CONFIG = DefaultConfig
  /\ result.stats.bulletsModified = 5
  /\ result.stats.newBulletsCreated = 1
  /\ Len(heap[args.cv].experience[1].bullets) > 5

\* The keywords injected into experience, one per injection, in order: what
\* the experience phase appended to keywordsCovered.
ExperienceInjections ==
  SubSeq(result.stats.keywordsCovered, result.stats.skillsAdded + 1,
         Len(result.stats.keywordsCovered))

\* C4: in one injectKeywords run a keyword text (compared case-insensitively)
\* is injected into experience at most once: not into two bullets, not into a
\* bullet and the new bullet, not twice into the new bullet.
C4_KeywordInjectedOnce ==
  Injected => DistinctIgnoringCase(ExperienceInjections)

\* C5: stats.keywordsCovered contains no keyword twice.
C5_CoveredOnce ==
  Injected =>
    \A i, j \in DOMAIN result.stats.keywordsCovered :
      i < j => result.stats.keywordsCovered[i] # result.stats.keywordsCovered[j]

\* The bitwise CRC-32 of the reference: one shift per message bit, no table.
RECURSIVE RefBits(_, _)
RefBits(c, n) ==
  IF n = 0 THEN c
  ELSE LET d == RefBits(c, n - 1)
       IN  IF d[2] % 2 = 1 THEN XorW(Shr1(d), <<60856, 33568>>) ELSE Shr1(d)

RECURSIVE RefRegister(_)
RefRegister(data) ==
  IF data = <<>> THEN <<65535, 65535>>
  ELSE Strict(LAMBDA crc : RefBits(XorW(crc, <<0, data[Len(data)]>>), 8),
              RefRegister(SubSeq(data, 1, Len(data) - 1)))

RefCrc32(data) == XorW(RefRegister(data), <<65535, 65535>>)

\* C8: _crc32 is the IEEE CRC-32: 0x00000000 for the empty buffer,
\* 0xCBF43926 for "123456789", and equal to the bitwise reference CRC-32 on
\* every byte sequence.
C8_Crc32IsIeee ==
  (pc = "done" /\ "data" \in DOMAIN args) =>
    /\ result.value = RefCrc32(args.data)
    /\ (args.data = <<>> => result.value = <<0, 0>>)
    /\ (args.data = CheckVector => result.value = <<52212, 14630>>)

C8_Witness ==
  /\ pc = "done"
  /\ "data" \in DOMAIN args
  /\ args.data = CheckVector
  /\ result.value = <<52212, 14630>>

\* C6: the Scenario-A text parses to exactly the Document the scenario
\* gives: the name and the email of the first two lines, one experience
\* entry of company "Acme Co" with the one bullet "Built systems.", the
\* skills "Python" and "Go" and nothing else, and one education entry of
\* degree "BSc CS".
C6_ScenarioADocument ==
  (pc = "done" /\ "cvText" \in DOMAIN args /\ args.cvText = ScenarioAText) =>
    LET cv == heap[1]
    IN  /\ cv.personal.name = <<"J","O","H","N"," ","S","M","I","T","H">>
        /\ cv.personal.email = <<"j","o","h","n","@","x",".","c","o","m">>
        /\ Len(cv.experience) = 1
        /\ cv.experience[1].company = <<"A","c","m","e"," ","C","o">>
        /\ cv.experience[1].bullets = <<<<"B","u","i","l","t"," ","s","y","s","t","e","m","s",".">>>>
        /\ cv.skills.hard = <<<<"P","y","t","h","o","n">>, <<"G","o">>>>
        /\ Len(cv.education) = 1
        /\ cv.education[1].degree = <<"B","S","c"," ","C","S">>

\* The pipeline has returned a result of success.
Succeeded == pc = "done" /\ "success" \in DOMAIN result /\ result.success

NoText == "cvText" \notin DOMAIN args \/ args.cvText = <<>>

\* C10: for an empty or absent text parseCVToJSON returns null, and the
\* pipeline returns success = false with an error marker and nothing else:
\* no Document was created, Math.random was not called and the console
\* holds the opening line only.
C10_FailFast ==
  (pc = "done" /\ NoText) =>
    /\ parseCVToJSON(args).cv = null
    /\ result = [success |-> FALSE, error |-> "Failed to parse CV"]
    /\ heap = <<>>
    /\ Len(rand) = MaxDraws
    /\ Len(console) = 1

\* The pipeline has failed on an absent text, the keywords absent too.
C10_Witness ==
  /\ pc = "done"
  /\ "cvText" \notin DOMAIN args /\ "keywords" \notin DOMAIN args
  /\ "success" \in DOMAIN result /\ ~result.success

\* A reader of ZIP archives.  Offsets count from 0; a number is read from
\* its bytes, least significant first.
ReadU16(b, p) == b[p + 1] + 256 * b[p + 2]

ReadU32(b, p) == ReadU16(b, p) + 65536 * ReadU16(b, p + 2)

ReadWord(b, p) == <<ReadU16(b, p + 2), ReadU16(b, p)>>

HasSignature(b, p, sig) == p >= 0 /\ p + 4 <= Len(b) /\ SubSeq(b, p + 1, p + 4) = sig

\* Where the end record can start: its signature is there and its comment
\* ends the archive.
EndRecords(b) ==
  {p \in 0..(Len(b) - 22) :
     HasSignature(b, p, <<80, 75, 5, 6>>) /\ p + 22 + ReadU16(b, p + 20) = Len(b)}

\* The offset of the k-th header of the central directory that starts at
\* start, -1 when a header before it is not one.
RECURSIVE CentralAt(_, _, _)
CentralAt(b, start, k) ==
  IF k = 1 THEN start
  ELSE LET p == CentralAt(b, start, k - 1)
       IN  IF p < 0 \/ p + 46 > Len(b) \/ ~HasSignature(b, p, <<80, 75, 1, 2>>) THEN -1
           ELSE p + 46 + ReadU16(b, p + 28) + ReadU16(b, p + 30) + ReadU16(b, p + 32)

\* The entry the central header at p describes: its name, the stored bytes
\* its local header leads to, its CRC; valid when the two headers are
\* well formed, agree, and the bytes lie before the central directory.
ReadEntry(b, p, directory) ==
  IF p < 0 \/ p + 46 > Len(b) \/ ~HasSignature(b, p, <<80, 75, 1, 2>>)
     \/ p + 46 + ReadU16(b, p + 28) > Len(b)
    THEN [valid |-> FALSE]
  ELSE
    LET n     == ReadU16(b, p + 28)
        size  == ReadU32(b, p + 20)
        local == ReadU32(b, p + 42)
        name  == SubSeq(b, p + 47, p + 46 + n)
    IN  IF \/ ReadU16(b, p + 10) # 0
           \/ ReadU32(b, p + 24) # size
           \/ local + 30 > directory
           \/ ~HasSignature(b, local, <<80, 75, 3, 4>>)
          THEN [valid |-> FALSE]
        ELSE
          LET data == local + 30 + ReadU16(b, local + 26) + ReadU16(b, local + 28)
          IN  IF \/ data + size > directory
                 \/ ReadU16(b, local + 8) # 0
                 \/ ReadU16(b, local + 26) # n
                 \/ SubSeq(b, local + 31, local + 30 + n) # name
                 \/ ReadWord(b, local + 14) # ReadWord(b, p + 16)
                 \/ ReadU32(b, local + 18) # size
                 \/ ReadU32(b, local + 22) # size
                THEN [valid |-> FALSE]
                ELSE [valid |-> TRUE,
                      path |-> name,
                      content |-> SubSeq(b, data + 1, data + size),
                      crc |-> ReadWord(b, p + 16)]

\* The entries of the archive b, in the order of its central directory.
ReadZip(b) ==
  IF EndRecords(b) = {} THEN [valid |-> FALSE]
  ELSE
    LET end       == Max(EndRecords(b))
        count     == ReadU16(b, end + 10)
        directory == ReadU32(b, end + 16)
        entries   == [k \in 1..count |-> ReadEntry(b, CentralAt(b, directory, k), directory)]
    IN  IF /\ \A k \in 1..count : entries[k].valid
           /\ CentralAt(b, directory, count + 1) = end
           /\ ReadU32(b, end + 12) = end - directory
          THEN [valid |-> TRUE, entries |-> entries]
          ELSE [valid |-> FALSE]

\* The code points the UTF-8 bytes spell.
RECURSIVE Utf8Decode(_)
Utf8Decode(bytes) ==
  IF bytes = <<>> THEN <<>>
  ELSE LET lead == bytes[1]
           n    == IF lead < 128 THEN 1 ELSE IF lead < 224 THEN 2
                   ELSE IF lead < 240 THEN 3 ELSE 4
           cp   == IF n = 1 THEN lead
                   ELSE IF n = 2 THEN (lead - 192) * 64 + (bytes[2] - 128)
                   ELSE IF n = 3
                     THEN (lead - 224) * 4096 + (bytes[2] - 128) * 64 + (bytes[3] - 128)
                   ELSE (lead - 240) * 262144 + (bytes[2] - 128) * 4096
                        + (bytes[3] - 128) * 64 + (bytes[4] - 128)
       IN  <<cp>> \o Utf8Decode(SubSeq(bytes, n + 1, Len(bytes)))

\* The code points of the characters of s.
CodePointsOf(s) == [i \in 1..Len(s) |-> CodePoints[s[i]]]

\* C7: the bytes _createMinimalZip produces read back as a ZIP archive
\* whose entries are, in order, the paths that were passed in, each with
\* the bytes of its content and with the CRC-32 of those bytes.
C7_ArchiveRoundTrip ==
  pc = "done" =>
    LET zip == ReadZip(result.bytes)
    IN  /\ zip.valid
        /\ Len(zip.entries) = Len(args.files)
        /\ \A i \in 1..Len(args.files) :
             /\ Utf8Decode(zip.entries[i].path) = CodePointsOf(args.files[i][1])
             /\ Utf8Decode(zip.entries[i].content) = CodePointsOf(args.files[i][2])
             /\ zip.entries[i].crc = RefCrc32(zip.entries[i].content)

\* An archive of two entries has been written, the first with content and
\* a path outside ASCII, so that the second starts past both.
C7_Witness ==
  /\ pc = "done"
  /\ Len(args.files) = 2
  /\ args.files[1][1] = ZipPaths[4]
  /\ args.files[1][2] = ZipContents[3]
  /\ args.files[2][2] = ZipContents[4]
  /\ ReadZip(result.bytes).valid

\* The text holds a line that is the heading word alone, in any case, with
\* white space around it and colons after it.
HasHeadingLine(text, word) ==
  \E line \in {split(text, {"\n"})[i] : i \in 1..Len(split(text, {"\n"}))} :
    toUpperCase(StripHeadingTail(trim(line))) = word

ContainsWord(text, word) == includes(toLowerCase(text), toLowerCase(word))

\* C11 as stated: on a text without an EDUCATION heading line,
\* validateATSCompatibility returns checks.standardSections = false and
\* isValid = false.
C11_NoHeadingInvalid ==
  (pc = "done" /\ ~HasHeadingLine(args.cvText, requiredSections[3])) =>
    (~result.checks.standardSections /\ ~result.isValid)

\* C11 as amended: on a text that does not contain EDUCATION, in any case,
\* anywhere, validateATSCompatibility returns checks.standardSections =
\* false and isValid = false; isValid is the conjunction of all checks, so
\* it is false whenever one of EXPERIENCE, SKILLS, EDUCATION occurs nowhere
\* in the text, and standardSections is true when all three occur.
C11_MissingSectionInvalid ==
  pc = "done" =>
    /\ ~ContainsWord(args.cvText, requiredSections[3]) =>
         (~result.checks.standardSections /\ ~result.isValid)
    /\ result.isValid = (\A f \in DOMAIN result.checks : result.checks[f])
    /\ DOMAIN result.checks = {"noBoldOveruse", "commaSkills", "naturalBullets",
                               "plainTextParseable", "standardSections"}
    /\ result.checks.standardSections =
         (\A k \in 1..3 : ContainsWord(args.cvText, requiredSections[k]))
    /\ (\E k \in 1..3 : ~ContainsWord(args.cvText, requiredSections[k])) => ~result.isValid

\* A text with EXPERIENCE and SKILLS but without EDUCATION was validated:
\* standardSections is the one check that failed.
C11_Witness ==
  /\ pc = "done"
  /\ ContainsWord(args.cvText, requiredSections[1])
  /\ ContainsWord(args.cvText, requiredSections[2])
  /\ ~ContainsWord(args.cvText, requiredSections[3])
  /\ result.checks.commaSkills /\ result.checks.naturalBullets
  /\ ~result.checks.standardSections /\ ~result.isValid

\* a is b with some elements left out.
RECURSIVE IsSubsequence(_, _)
IsSubsequence(a, b) ==
  IF a = <<>> THEN TRUE
  ELSE IF b = <<>> THEN FALSE
  ELSE IF Head(a) = Head(b) THEN IsSubsequence(Tail(a), Tail(b))
  ELSE IsSubsequence(a, Tail(b))

RECURSIVE SumOfLengths(_, _)
SumOfLengths(k, names) ==
  IF names = {} THEN 0
  ELSE LET n == CHOOSE x \in names : TRUE
       IN  Len(k[n]) + SumOfLengths(k, names \ {n})

\* The record the claim gives a keyword of the group called name.
RecordOf(name, kw) ==
  [keyword  |-> kw,
   priority |-> CASE name \in {"highROI", "highPriority"} -> "high"
                  [] name \in {"lowROI", "lowPriority"} -> "low"
                  [] OTHER -> "medium",
   targets  |-> CASE name \in {"highROI", "highPriority"} -> <<"experience", "skills">>
                  [] name \in {"lowROI", "lowPriority"} -> <<"summary">>
                  [] OTHER -> <<"experience">>]

\* C12: parseKeywordsToJSON returns one record per supplied keyword: the
\* output is as long as the supplied groups together, holds the records of
\* every supplied group in source order, and runs through high, medium,
\* low and unclassified (medium) records in this order.
C12_OneRecordPerKeyword ==
  pc = "done" =>
    LET k   == args.keywords
        out == result.value
    IN  /\ Len(out) = SumOfLengths(k, DOMAIN k)
        /\ \A n \in DOMAIN k :
             IsSubsequence([i \in 1..Len(k[n]) |-> RecordOf(n, k[n][i])], out)
        /\ \E a, b, c \in 0..Len(out) :
             /\ a <= b /\ b <= c
             /\ \A i \in 1..Len(out) :
                  out[i].priority = (IF i <= a THEN "high"
                                     ELSE IF i <= b THEN "medium"
                                     ELSE IF i <= c THEN "low" ELSE "medium")

\* A reader of the document part: the raw contents of its w:t elements, in
\* order.
TextRuns(xml) ==
  LET opens  == Occurrences(xml, <<"<","w",":","t",">">>)
      closes == Occurrences(xml, <<"<","/","w",":","t",">">>)
      RunAt(o) == SubSeq(xml, o + 6, Min({c \in closes : c > o}))
  IN  [k \in 1..Cardinality(opens) |->
         RunAt(CHOOSE o \in opens : Cardinality({x \in opens : x < o}) = k - 1)]

\* The five entities and the characters they stand for.
XmlEntities ==
  <<<<<<"&","a","m","p",";">>, "&">>,
    <<<<"&","l","t",";">>, "<">>,
    <<<<"&","g","t",";">>, ">">>,
    <<<<"&","q","u","o","t",";">>, "\"">>,
    <<<<"&","a","p","o","s",";">>, "'">>>>

EntityAt(r, i) == {e \in DOMAIN XmlEntities : startsWith(SubSeq(r, i, Len(r)), XmlEntities[e][1])}

\* r holds none of < > " ' and no & but at the start of an entity.
WellEscaped(r) ==
  \A i \in 1..Len(r) :
    /\ r[i] \notin {"<", ">", "\"", "'"}
    /\ r[i] = "&" => EntityAt(r, i) # {}

\* The text a well-escaped r stands for.
RECURSIVE XmlDecode(_)
XmlDecode(r) ==
  IF r = <<>> THEN <<>>
  ELSE IF Head(r) = "&" /\ EntityAt(r, 1) # {}
    THEN LET e == CHOOSE x \in EntityAt(r, 1) : TRUE
         IN  <<XmlEntities[e][2]>> \o XmlDecode(SubSeq(r, Len(XmlEntities[e][1]) + 1, Len(r)))
  ELSE <<Head(r)>> \o XmlDecode(Tail(r))

\* The texts the body shows for a Document, paragraph by paragraph: the
\* fixed headings and the Document's own texts.
ExpectedRuns(cv) ==
  LET p == cv.personal
      links == filterBoolean(<<p.linkedin, p.github>>)
      EntryRuns(exp) ==
        <<exp.company \o <<" ","|"," ">> \o exp.title>>
        \o (IF exp.dates # <<>> THEN <<exp.dates>> ELSE <<>>)
        \o [b \in 1..(IF Len(exp.bullets) < 6 THEN Len(exp.bullets) ELSE 6) |->
              <<"U+201A","U+00C4","U+00A2"," ">> \o exp.bullets[b]]
      RECURSIVE AllEntryRuns(_)
      AllEntryRuns(n) ==
        IF n = 0 THEN <<>> ELSE AllEntryRuns(n - 1) \o EntryRuns(cv.experience[n])
  IN  <<p.name, join(filterBoolean(<<p.location, p.email, p.phone>>), <<" ","|"," ">>)>>
      \o (IF links # <<>> THEN <<join(links, <<" ","|"," ">>)>> ELSE <<>>)
      \o (IF cv.summary # <<>>
            THEN <<<<"P","R","O","F","E","S","S","I","O","N","A","L"," ",
                     "S","U","M","M","A","R","Y">>, cv.summary>>
            ELSE <<>>)
      \o (IF cv.experience # <<>>
            THEN <<<<"E","X","P","E","R","I","E","N","C","E">>>>
                 \o AllEntryRuns(Len(cv.experience))
            ELSE <<>>)
      \o (IF cv.skills.hard # <<>>
            THEN <<<<"S","K","I","L","L","S">>, join(cv.skills.hard, <<","," ">>)>>
            ELSE <<>>)
      \o (IF cv.education # <<>>
            THEN <<<<"E","D","U","C","A","T","I","O","N">>>>
                 \o [i \in 1..Len(cv.education) |-> cv.education[i].degree]
            ELSE <<>>)
      \o (IF cv.certifications # <<>>
            THEN <<<<"C","E","R","T","I","F","I","C","A","T","I","O","N","S">>,
                   join(cv.certifications, <<","," ">>)>>
            ELSE <<>>)

\* C13: every text of the Document reaches the DOCX body escaped: the text
\* runs of word/document.xml hold no raw < > " ' and no & that does not
\* start one of the five entities, and decoding them gives back exactly
\* the Document's texts (name, contact and link items, summary, every
\* entry's company, title, dates and bullets, skills, degrees,
\* certifications), character by character.
C13_BodyTextEscaped ==
  pc = "done" =>
    LET runs == TextRuns(result.files[3][2])
    IN  /\ \A k \in 1..Len(runs) : WellEscaped(runs[k])
        /\ [k \in 1..Len(runs) |-> XmlDecode(runs[k])] = ExpectedRuns(heap[args.cv])

\* A Document whose name holds all five reserved characters, with entries,
\* bullets, skills and certifications, was rendered.
C13_Witness ==
  /\ pc = "done"
  /\ {"&", "<", ">", "\"", "'"} \subseteq
       {heap[args.cv].personal.name[i] : i \in 1..Len(heap[args.cv].personal.name)}
  /\ Len(heap[args.cv].experience) = MaxDocxEntries
  /\ heap[args.cv].certifications # <<>>
  /\ heap[args.cv].summary # <<>>

\* C14: when options.locationOverride is present, whatever string it holds,
\* the Document injectKeywords returns has it as personal.location; when it
\* is absent the location is the input Document's.
C14_LocationOverride ==
  pc # "injectKeywords" =>
    heap[result.cv].personal.location =
      (IF "locationOverride" \in DOMAIN args.options
         THEN args.options.locationOverride
         ELSE heap[args.cv].personal.location)

\* The bullets, stripped, among the trimmed lines from a to b.
RECURSIVE BulletTextsOf(_, _, _)
BulletTextsOf(lines, a, b) ==
  IF a > b THEN <<>>
  ELSE (IF isBullet(trim(lines[a]))
          THEN <<stripBullet(trim(lines[a]), RoleBulletClass)>> ELSE <<>>)
       \o BulletTextsOf(lines, a + 1, b)

\* The entries come from role lines of the text in the order of the lines:
\* every entry has a role line of its own, after the one of the entry
\* before it, and its bullets are bullet lines, in their order, between its
\* role line and the next entry's.
RECURSIVE InSourceOrder(_, _, _)
InSourceOrder(entries, lines, from) ==
  IF entries = <<>> THEN TRUE
  ELSE \E l \in from..Len(lines) :
         /\ ~isBullet(trim(lines[l]))
         /\ roleMatch(trim(lines[l])) # <<>> \/ dateMatch(trim(lines[l])) # <<>>
         /\ [entries[1] EXCEPT !.bullets = <<>>] = newRole(trim(lines[l]))
         /\ \E m \in (l + 1)..(Len(lines) + 1) :
              /\ IsSubsequence(entries[1].bullets, BulletTextsOf(lines, l + 1, m - 1))
              /\ InSourceOrder(Tail(entries), lines, m)

\* Bullet out is bullet in, as it was or with a phrase added at its end (in
\* front of the final period when it has one).
Extends(out, in) ==
  \/ startsWith(out, in)
  \/ endsWith(in, <<".">>) /\ startsWith(out, SubSeq(in, 1, Len(in) - 1))

\* C15: parseCVToJSON lists the experience entries in the order the text
\* holds them; injectKeywords keeps the number and the order of the entries
\* and, in every entry, of the bullets it had (bullet i of the output is
\* bullet i of the input, possibly extended), a new bullet coming after
\* all of them.
C15_OrderPreserved ==
  Succeeded =>
    LET before == heap[1].experience
        after  == heap[result.cvJSON].experience
    IN  /\ InSourceOrder(before, split(args.cvText, {"\n"}), 1)
        /\ Len(after) = Len(before)
        /\ \A i \in 1..Len(before) :
             /\ [after[i] EXCEPT !.bullets = <<>>] = [before[i] EXCEPT !.bullets = <<>>]
             /\ Len(after[i].bullets) \in {Len(before[i].bullets), Len(before[i].bullets) + 1}
             /\ \A j \in 1..Len(before[i].bullets) :
                  Extends(after[i].bullets[j], before[i].bullets[j])

\* A text with two roles went through the pipeline: a bullet was extended
\* and an entry gained a bullet.
C15_Witness ==
  /\ Succeeded
  /\ Len(heap[1].experience) >= 2
  /\ \E i \in 1..Len(heap[1].experience) :
       /\ Len(heap[result.cvJSON].experience[i].bullets) = Len(heap[1].experience[i].bullets) + 1
       /\ \E j \in 1..Len(heap[1].experience[i].bullets) :
            heap[result.cvJSON].experience[i].bullets[j] # heap[1].experience[i].bullets[j]

\* The formats exportAllFormats produces, in its order.
AllFormats == <<<<"d","o","c","x">>, <<"p","d","f">>, <<"t","x","t">>>>

\* The formats that the page lets exportAllFormats produce before one of
\* them throws: none when JSZip's promise rejects, docx alone when jspdf or
\* jsPDF is defined, all three otherwise.
ProducedBeforeFailure(env) ==
  IF env.JSZip = "rejects" THEN 0 ELSE IF env.jsPDF THEN 1 ELSE 3

\* The message of the error thrown by the format that fails.
MessageOfFailure(env) ==
  IF env.JSZip = "rejects" THEN "JSZip: generateAsync failed"
  ELSE "this._exportWithJsPDF is not a function"

\* C16: exportAllFormats produces docx, pdf, txt in this order: at every
\* moment the formats of results.files are a prefix of docx, pdf, txt.  When
\* it has returned, success is true exactly if files holds all three; if a
\* format threw, the result has success = false, the message of the error
\* thrown, and exactly the formats produced before the failure.
C16_ExportAllFormats ==
  (pc # "exportAllFormats") =>
    /\ FormatsOf(result.files, Len(result.files))
         = SubSeq(AllFormats, 1, Len(result.files))
    /\ Len(result.files) <= 3
    /\ (pc = "done") =>
         /\ result.success <=> (Len(result.files) = 3)
         /\ Len(result.files) = ProducedBeforeFailure(args.env)
         /\ ~result.success =>
              /\ "error" \in DOMAIN result
              /\ result.error = MessageOfFailure(args.env)
              /\ Len(result.files) < 3

\* exportToPDF threw after the DOCX was produced.
C16_Witness ==
  /\ pc = "done"
  /\ ~result.success
  /\ Len(result.files) = 1
  /\ result.files[1].format = <<"d","o","c","x">>

\* What exportToDocx(cv) returns when nothing else runs, on a new engine.
ExportToDocxAlone(cv, env) ==
  Strict(LAMBDA started : ExportToDocxResume(started.promise, 0).promise,
         ExportToDocxStart(NewEngine, cv, env))

\* What exportAllFormats(cv, baseName) returns when nothing else runs.
ExportAllFormatsAlone(cv, baseName, env) ==
  Strict(LAMBDA mid :
           IF mid.pc = "done" THEN mid.results
           ELSE ExportAllFormatsAfterPDF(mid.results, mid.promise, cv, baseName).results,
         Strict(LAMBDA docx :
                  ExportAllFormatsAfterDocx([success |-> TRUE, files |-> <<>>], docx,
                                            cv, baseName, env, 0),
                ExportToDocxAlone(cv, env)))

\* What the operation call can return when it runs alone on the Document
\* cv, Math.random returns rnd and every reading of the clock measures
\* MaxElapsed.
AloneResults(call, cv, rnd, cfg) ==
  IF call.op = "fullInjectionPipeline"
    THEN {fullInjectionPipeline(call.a, rnd, cfg, MaxElapsed, MaxElapsed).result}
  ELSE IF call.op = "exportToPDF"
    THEN {exportToPDF(cv, call.env, 0).promise}
  ELSE IF call.op = "exportToDocx"
    THEN {ExportToDocxAlone(cv, call.env)}
  ELSE {ExportAllFormatsAlone(cv, BaseNameOf(call), call.env)}

\* What the two operations share is whole: the CRC table is absent or
\* complete, the configuration is the one the engine was built with, and an
\* export leaves the Document it was given as it was.
SharedStateWhole ==
  /\ heap.this._crc32Table \in {NoTable, _makeCRC32Table}
  /\ CONFIG = DefaultConfig
  /\ \A p \in Procs :
       args[p].op # "fullInjectionPipeline"
         => heap.frame[p].objects = <<ConcurrentDocuments[p]>>

\* C17: when two asynchronous operations run on their own inputs with their
\* steps interleaved at the awaits, each returns what it returns when it
\* runs alone, and the state they share (the lazily built CRC table, the
\* configuration) is never seen half built or changed by the other run.
C17_IndependentRuns ==
  /\ []SharedStateWhole
  /\ [][\A p \in Procs :
          (pc[p] # "done" /\ pc'[p] = "done")
            => result'[p] \in AloneResults(args[p], ConcurrentDocuments[p], rand, CONFIG)]_vars

\* An exportAllFormats has returned its three files while another export,
\* started on the same engine, is still awaiting; the ZIP writer has run.
C17_Witness ==
  /\ pc[1] = "done"
  /\ args[1].op = "exportAllFormats"
  /\ result[1].success
  /\ args[2].op \in {"exportAllFormats", "exportToDocx"}
  /\ pc[2] \notin {"call", "done"}
  /\ heap.this._crc32Table # NoTable

C19_CapForEveryConfig ==
  (pc # "injectKeywords") =>
    result.stats.totalInjections <= CONFIG.MAX_TOTAL_INJECTIONS

\* The number of bullets the first entry of the Document handed in had, and
\* how many of them the run changed.
FirstEntryBulletsBefore == Len(heap[args.cv].experience[1].bullets)

FirstEntryBulletsChanged ==
  Cardinality({b \in 1..FirstEntryBulletsBefore :
                 heap[result.cv].experience[1].bullets[b]
                   # heap[args.cv].experience[1].bullets[b]})

\* The high-priority keywords with the target experience that the bullets of
\* the first entry left unused, in keyword order: those whose lower-cased
\* text is not among the first injections of the experience phase.
UnusedAfterFirstEntry ==
  LET used == {toLowerCase(ExperienceInjections[i]) : i \in 1..FirstEntryBulletsChanged}
  IN  SelectSeq(args.keywords,
                LAMBDA k : /\ k.priority = "high"
                           /\ arrayIncludes(k.targets, "experience")
                           /\ toLowerCase(k.keyword) \notin used)

\* The text a bullet naming the keywords a and b starts with.
SyntheticPrefix(a, b) ==
  <<"I","m","p","l","e","m","e","n","t","e","d"," ">> \o a
  \o <<" ","a","n","d"," ">> \o b
  \o <<" ","s","o","l","u","t","i","o","n","s",","," ">>

\* C20: only the first experience entry can gain a bullet, and at most one;
\* it gains it only if at least two high-priority experience keywords are
\* unused after its bullets were processed, and the bullet names the first
\* two of them in keyword order.  Every other entry keeps its number of
\* bullets, and a Document without entries gains no bullet.
C20_SyntheticBullet ==
  Injected =>
    LET before == heap[args.cv].experience
        after  == heap[result.cv].experience
    IN  /\ Len(after) = Len(before)
        /\ \A i \in 2..Len(before) : Len(after[i].bullets) = Len(before[i].bullets)
        /\ Len(before) = 0 => result.stats.newBulletsCreated = 0
        /\ Len(before) > 0 =>
             /\ Len(after[1].bullets)
                  = Len(before[1].bullets) + result.stats.newBulletsCreated
             /\ result.stats.newBulletsCreated \in {0, 1}
             /\ result.stats.newBulletsCreated = 1 =>
                  /\ Len(UnusedAfterFirstEntry) >= 2
                  /\ startsWith(after[1].bullets[Len(after[1].bullets)],
                                SyntheticPrefix(UnusedAfterFirstEntry[1].keyword,
                                                UnusedAfterFirstEntry[2].keyword))

\* A run on two entries in which bullets of the first were injected and the
\* first then gained the new bullet.
C20_Witness ==
  /\ Injected
  /\ Len(heap[args.cv].experience) = 2
  /\ result.stats.newBulletsCreated = 1
  /\ FirstEntryBulletsChanged >= 2
  /\ result.stats.bulletsModified > FirstEntryBulletsChanged

\* Whether keyword record k names the target.
Targets(k, target) == \E i \in DOMAIN k.targets : k.targets[i] = target

\* The first n keywords of the given priority that target experience.
FirstForExperience(keywords, priority, n) ==
  LET all == SelectSeq(keywords, LAMBDA k : k.priority = priority /\ Targets(k, "experience"))
  IN  SubSeq(all, 1, IF Len(all) < n THEN Len(all) ELSE n)

\* The candidate pool as stated: three high-priority, then two medium-priority
\* keywords among those that target experience.
StatedPool ==
  FirstForExperience(args.keywords, "high", 3)
  \o FirstForExperience(args.keywords, "medium", 2)

\* The bullets of the input, as <<entry, bullet>> positions.
InputBullets ==
  UNION {{<<e, b>> : b \in DOMAIN heap[args.cv].experience[e].bullets} :
           e \in DOMAIN heap[args.cv].experience}

\* Bullet p of the returned Document differs from the input's.
BulletChanged(p) ==
  heap[result.cv].experience[p[1]].bullets[p[2]]
    # heap[args.cv].experience[p[1]].bullets[p[2]]

\* The number of keywords injected before bullet p was visited: one for each
\* changed bullet before it and two for a new bullet of the first entry.
InjectionsBefore(p) ==
  Cardinality({q \in InputBullets :
                 /\ q[1] < p[1] \/ (q[1] = p[1] /\ q[2] < p[2])
                 /\ BulletChanged(q)})
  + (IF p[1] > 1 THEN 2 * result.stats.newBulletsCreated ELSE 0)

\* The positions in the pool of the keywords bullet p could receive.
PoolCandidates(pool, p) ==
  LET used == {toLowerCase(ExperienceInjections[i]) : i \in 1..InjectionsBefore(p)}
      bulletLower == toLowerCase(heap[args.cv].experience[p[1]].bullets[p[2]])
  IN  {i \in DOMAIN pool :
         /\ toLowerCase(pool[i].keyword) \notin used
         /\ ~includes(bulletLower, toLowerCase(pool[i].keyword))}

\* C21: the candidate pool is the first 3 high-priority keywords that target
\* experience followed by the first 2 medium-priority keywords that target
\* experience; in document order each bullet receives the first keyword of
\* the pool that is not yet used and does not occur (ignoring case) in the
\* bullet, and a bullet with no such keyword is left unchanged.
C21_ExperienceSelection ==
  Injected =>
    \A p \in InputBullets :
      LET ok == PoolCandidates(StatedPool, p) IN
      IF ok = {} THEN ~BulletChanged(p)
      ELSE /\ BulletChanged(p)
           /\ InjectionsBefore(p) < Len(ExperienceInjections)
           /\ ExperienceInjections[InjectionsBefore(p) + 1]
                = StatedPool[CHOOSE i \in ok : \A j \in ok : i <= j].keyword

\* The keywords the skills phase considers, as stated: the first
\* MAX_HIGH_PRIO_SKILLS high-priority keywords that target skills.
ConsideredForSkills ==
  LET all == SelectSeq(args.keywords, LAMBDA k : k.priority = "high" /\ Targets(k, "skills"))
  IN  SubSeq(all, 1, IF Len(all) < CONFIG.MAX_HIGH_PRIO_SKILLS
                       THEN Len(all) ELSE CONFIG.MAX_HIGH_PRIO_SKILLS)

\* The considered keywords that equal, ignoring case, neither a skill of the
\* input nor a keyword considered before them.
StatedAppended ==
  LET c   == ConsideredForSkills
      old == {toLowerCase(heap[args.cv].skills.hard[j]) : j \in DOMAIN heap[args.cv].skills.hard}
      new == {i \in DOMAIN c :
                /\ toLowerCase(c[i].keyword) \notin old
                /\ \A j \in 1..(i - 1) : toLowerCase(c[j].keyword) # toLowerCase(c[i].keyword)}
      picked == SelectSeq([i \in DOMAIN c |-> i], LAMBDA i : i \in new)
  IN  [i \in DOMAIN picked |-> c[picked[i]].keyword]

\* C22: the skills phase considers only the first MAX_HIGH_PRIO_SKILLS (5)
\* high-priority keywords that target skills and appends one iff no entry of
\* skills.hard, appended ones included, equals it ignoring case; skillsAdded
\* is the number of appended entries and at most 5; the skills of the input
\* keep their relative order and come before every appended keyword.
C22_SkillsPhase ==
  Injected =>
    LET in   == heap[args.cv].skills.hard
        out  == heap[result.cv].skills.hard
        kept == Len(out) - result.stats.skillsAdded
    IN  /\ result.stats.skillsAdded <= 5
        /\ result.stats.skillsAdded = Len(StatedAppended)
        /\ kept >= 0
        /\ SubSeq(out, kept + 1, Len(out)) = StatedAppended
        /\ SubSeq(out, 1, kept) = in

\* A run with six high-priority skills keywords of which the sixth was not
\* considered and one of the first five matched a skill of the input.
C22_Witness ==
  /\ Injected
  /\ Len(SelectSeq(args.keywords, LAMBDA k : k.priority = "high" /\ Targets(k, "skills"))) > 5
  /\ result.stats.skillsAdded \in 3..4
  /\ Len(heap[args.cv].skills.hard) > 0
  /\ Len(heap[result.cv].skills.hard) > Len(heap[args.cv].skills.hard)

\* The lines of the text handed to the parser, and line i trimmed.
TextLines == split(args.cvText, {"\n"})

Trimmed(i) == trim(TextLines[i])

\* Line i is a section heading; the section it names.
IsHeading(i) == \E s \in DOMAIN sectionPatterns : test(sectionPatterns[s], Trimmed(i))

HeadingSection(i) == CHOOSE s \in DOMAIN sectionPatterns : test(sectionPatterns[s], Trimmed(i))

\* The section current when the content of line i is read: the one named by
\* the last heading up to line i.
SectionAt(i) ==
  LET hs == {j \in 1..i : IsHeading(j)}
  IN  IF hs = {} THEN "header" ELSE HeadingSection(Max(hs))

\* Line i is a role header seen in the experience section.
IsRoleHeader(i) ==
  /\ SectionAt(i) = "experience"
  /\ Trimmed(i) # <<>>
  /\ ~isBullet(Trimmed(i))
  /\ roleMatch(Trimmed(i)) # <<>> \/ dateMatch(Trimmed(i)) # <<>>

RoleHeaderLines == SelectSeq([i \in 1..Len(TextLines) |-> i], IsRoleHeader)

\* The line that closes the role opened at line h: the next role header or
\* heading, or the end of the text.
ClosedAt(h) ==
  Min({j \in (h + 1)..Len(TextLines) : IsHeading(j) \/ IsRoleHeader(j)}
      \cup {Len(TextLines) + 1})

\* C23: every role-header line seen while the section is experience yields
\* exactly one experience entry, the entries are in the order of the lines,
\* and the bullets of an entry are exactly the bullet lines, stripped and in
\* order, between its header and the next role header, the next section
\* heading or the end of the text; a bullet line with no open role is dropped.
C23_RoleLifecycle ==
  (pc = "done" /\ result.cv # null) =>
    LET experience == result.cv.experience IN
    /\ Len(experience) = Len(RoleHeaderLines)
    /\ \A k \in DOMAIN experience :
         /\ [experience[k] EXCEPT !.bullets = <<>>] = newRole(Trimmed(RoleHeaderLines[k]))
         /\ experience[k].bullets
              = BulletTextsOf(TextLines, RoleHeaderLines[k] + 1,
                              ClosedAt(RoleHeaderLines[k]) - 1)

\* Two roles were parsed, the first with a bullet and closed by the second
\* role header.
C23_Witness ==
  /\ pc = "done" /\ result.cv # null
  /\ Len(result.cv.experience) = 2
  /\ result.cv.experience[1].bullets # <<>>
  /\ result.cv.experience[1] # result.cv.experience[2]

\* The lines, in order, that are no heading and are read while the section
\* is the given one.
ContentLines(section) ==
  SelectSeq([i \in 1..Len(TextLines) |-> i],
            LAMBDA i : SectionAt(i) = section /\ ~IsHeading(i))

\* C24: a section-heading line never becomes an education or a
\* certifications entry: education holds exactly the non-heading lines of
\* more than 5 characters read while the section is education, each as the
\* degree of an entry with no school and no dates, and certifications holds
\* exactly the non-heading, non-blank lines read while the section is
\* certifications (without their bullet glyph).
C24_EducationAndCertifications ==
  (pc = "done" /\ result.cv # null) =>
    LET degrees == SelectSeq(ContentLines("education"), LAMBDA i : Len(Trimmed(i)) > 5)
        certs   == SelectSeq(ContentLines("certifications"), LAMBDA i : Trimmed(i) # <<>>)
    IN  /\ result.cv.education
             = [k \in DOMAIN degrees |->
                  [degree |-> Trimmed(degrees[k]), school |-> <<>>, dates |-> <<>>]]
        /\ result.cv.certifications
             = [k \in DOMAIN certs |-> stripBullet(Trimmed(certs[k]), ListBulletClass)]
        /\ \A i \in DOMAIN TextLines :
             IsHeading(i) =>
               /\ \A k \in DOMAIN result.cv.education :
                    result.cv.education[k].degree # Trimmed(i)
               /\ \A k \in DOMAIN result.cv.certifications :
                    result.cv.certifications[k] # Trimmed(i)

\* A text with both headings gave an education entry and a certification.
C24_Witness ==
  /\ pc = "done" /\ result.cv # null
  /\ \E i, j \in DOMAIN TextLines :
       /\ i < j
       /\ IsHeading(i) /\ HeadingSection(i) = "education"
       /\ IsHeading(j) /\ HeadingSection(j) = "certifications"
  /\ result.cv.education # <<>>
  /\ result.cv.certifications # <<>>

\* The lengths, in bytes, of the name and of the content of part k.
NameLength(k) == Len(encode(args.files[k][1]))

ContentLength(k) == Len(encode(args.files[k][2]))

\* Where local entry k starts: the sizes of the entries before it, each 30
\* bytes, its name and its content.
RECURSIVE LocalStart(_)
LocalStart(k) ==
  IF k = 1 THEN 0
  ELSE LocalStart(k - 1) + 30 + NameLength(k - 1) + ContentLength(k - 1)

\* Where central record k starts in a directory that starts at directory.
RECURSIVE CentralStart(_, _)
CentralStart(directory, k) ==
  IF k = 1 THEN directory
  ELSE CentralStart(directory, k - 1) + 46 + NameLength(k - 1)

\* C25: the local-header offset recorded for entry k is the sum over the
\* earlier entries of 30 + name length + content length; the central records
\* follow the order of the local entries and carry the CRC, the sizes and
\* the name length of the matching local header; the end record holds the
\* entry count twice, the size of the central directory, which is the sum of
\* 46 + name length, and its offset, which is the size of all local entries;
\* the archive is as long as that offset + that size + 22.
C25_ArchiveBookkeeping ==
  pc = "done" =>
    LET b         == result.bytes
        n         == Len(args.files)
        directory == LocalStart(n + 1)
        end       == CentralStart(directory, n + 1)
    IN  /\ \A k \in 1..n :
             LET l == LocalStart(k)
                 c == CentralStart(directory, k)
             IN  /\ HasSignature(b, l, <<80, 75, 3, 4>>)
                 /\ HasSignature(b, c, <<80, 75, 1, 2>>)
                 /\ ReadU32(b, c + 42) = l
                 /\ ReadWord(b, c + 16) = ReadWord(b, l + 14)
                 /\ ReadU32(b, c + 20) = ReadU32(b, l + 18)
                 /\ ReadU32(b, c + 24) = ReadU32(b, l + 22)
                 /\ ReadU32(b, l + 18) = ContentLength(k)
                 /\ ReadU16(b, c + 28) = ReadU16(b, l + 26)
                 /\ ReadU16(b, l + 26) = NameLength(k)
                 /\ SubSeq(b, c + 47, c + 46 + NameLength(k))
                      = SubSeq(b, l + 31, l + 30 + NameLength(k))
        /\ HasSignature(b, end, <<80, 75, 5, 6>>)
        /\ ReadU16(b, end + 8) = n
        /\ ReadU16(b, end + 10) = n
        /\ ReadU32(b, end + 12) = end - directory
        /\ ReadU32(b, end + 16) = directory
        /\ Len(b) = directory + (end - directory) + 22

\* An archive of two parts with different names and non-empty contents: the
\* second local entry and the second central record start past the first.
C25_Witness ==
  /\ pc = "done"
  /\ Len(args.files) = 2
  /\ NameLength(1) # NameLength(2)
  /\ ContentLength(1) > 0
  /\ ReadU32(result.bytes, CentralStart(LocalStart(3), 2) + 42) = LocalStart(2)
  /\ LocalStart(2) > 30

\* The lines of the PDF that show text: those that start with "BT ".
PdfShowLines ==
  SelectSeq(split(result.bytes, {10}), LAMBDA l : startsWith(l, <<66, 84, 32>>))

\* A PDF string literal read from byte i of b, after its opening
\* parenthesis: a backslash escapes the backslash or parenthesis after it, a
\* parenthesis that is not escaped closes the literal.  Not valid when the
\* literal holds a control byte, an opening parenthesis that is not escaped,
\* a backslash before anything else, or does not end.
RECURSIVE ReadPdfString(_, _)
ReadPdfString(b, i) ==
  IF i > Len(b) THEN [valid |-> FALSE]
  ELSE IF b[i] = 41 THEN [valid |-> TRUE, text |-> <<>>, next |-> i + 1]
  ELSE IF b[i] = 40 \/ b[i] < 32 THEN [valid |-> FALSE]
  ELSE IF b[i] = 92
    THEN IF i + 1 <= Len(b) /\ b[i + 1] \in {92, 40, 41}
           THEN LET r == ReadPdfString(b, i + 2)
                IN  IF r.valid THEN [r EXCEPT !.text = <<b[i + 1]>> \o @] ELSE r
           ELSE [valid |-> FALSE]
  ELSE LET r == ReadPdfString(b, i + 1)
       IN  IF r.valid THEN [r EXCEPT !.text = <<b[i]>> \o @] ELSE r

\* C26: for every text item _createPDFBlob writes, the string literal of its
\* Tj instruction holds no control character (0x00-0x1f) and no backslash or
\* parenthesis that is not escaped: read as a PDF string it ends at the
\* closing parenthesis the code wrote and spells the item's text without its
\* control characters, each backslash and parenthesis of the text behind
\* exactly one escaping backslash.
C26_PdfStringEscaped ==
  pc = "done" =>
    /\ Len(PdfShowLines) = Len(args.textContent)
    /\ \A k \in DOMAIN args.textContent :
         LET line == PdfShowLines[k]
             open == Min({i \in DOMAIN line : line[i] = 40})
             read == ReadPdfString(line, open + 1)
         IN  /\ \E i \in DOMAIN line : line[i] = 40
             /\ read.valid
             /\ read.text = SelectSeq(encode(args.textContent[k].text), LAMBDA x : x >= 32)
             /\ SubSeq(line, read.next, Len(line)) = <<32, 84, 106, 32, 69, 84>>

\* A text with a backslash, a parenthesis and a control character was
\* written.
C26_Witness ==
  /\ pc = "done"
  /\ \E k \in DOMAIN args.textContent :
       LET text == args.textContent[k].text
       IN  /\ \E i \in DOMAIN text : text[i] = "\\"
           /\ \E i \in DOMAIN text : text[i] \in {"(", ")"}
           /\ \E i \in DOMAIN text : text[i] \in ControlChars

\* The entries of lines that are not blank.
NonBlank(lines) == SelectSeq(lines, LAMBDA l : trim(l) # <<>>)

\* The text runs of the DOCX body, unescaped, and the lines of the plain
\* text, blank ones left out.
BodyRuns ==
  LET runs == TextRuns(result.files[3][2])
  IN  NonBlank([k \in 1..Len(runs) |-> XmlDecode(runs[k])])

PlainLines == NonBlank(split(result.text, {"\n"}))

\* C27: the DOCX body mirrors the plain text: its text runs, unescaped, are
\* the lines of exportToDocxText, blank lines aside and the name compared
\* without regard to letter case; so the sections come in the same order, a
\* section is left out of one iff it is left out of the other, every entry
\* has the same heading and dates lines and at most its first 6 bullets.
C27_DocxMirrorsText ==
  pc = "done" =>
    /\ Len(BodyRuns) = Len(PlainLines)
    /\ \A k \in DOMAIN BodyRuns :
         \/ BodyRuns[k] = PlainLines[k]
         \/ /\ k = 1
            /\ trim(heap[args.cv].personal.name) # <<>>
            /\ toLowerCase(BodyRuns[k]) = toLowerCase(PlainLines[k])

\* A Document with a summary, two entries, the first of more than 6 bullets,
\* and no certifications was rendered both ways.
C27_Witness ==
  /\ pc = "done"
  /\ heap[args.cv].summary # <<>>
  /\ Len(heap[args.cv].experience) = 2
  /\ Len(heap[args.cv].experience[1].bullets) > 6
  /\ heap[args.cv].certifications = <<>>
  /\ Len(PlainLines) > 10

\* The bullets of the returned Document, as <<entry, bullet>> positions.
OutputBullets ==
  UNION {{<<e, b>> : b \in DOMAIN heap[result.cv].experience[e].bullets} :
           e \in DOMAIN heap[result.cv].experience}

\* C28: after every injectKeywords run the stats agree with one another and
\* with the Documents: totalInjections = bulletsModified + 2 *
\* newBulletsCreated, keywordsCovered has skillsAdded + bulletsModified + 2 *
\* newBulletsCreated entries, bulletsModified is the number of bullets whose
\* text differs from the input's and newBulletsCreated the number of bullets
\* added.
C28_StatsConsistent ==
  Injected =>
    LET stats == result.stats IN
    /\ stats.totalInjections = stats.bulletsModified + 2 * stats.newBulletsCreated
    /\ Len(stats.keywordsCovered)
         = stats.skillsAdded + stats.bulletsModified + 2 * stats.newBulletsCreated
    /\ InputBullets \subseteq OutputBullets
    /\ stats.bulletsModified = Cardinality({p \in InputBullets : BulletChanged(p)})
    /\ stats.newBulletsCreated = Cardinality(OutputBullets \ InputBullets)

\* A run that added skills, changed bullets of two entries and added the new
\* bullet.
C28_Witness ==
  /\ Injected
  /\ result.stats.skillsAdded > 0
  /\ result.stats.newBulletsCreated = 1
  /\ \E p, q \in InputBullets : p[1] # q[1] /\ BulletChanged(p) /\ BulletChanged(q)

\* The bullets changed before bullet p in document order.
ChangedBefore(p) ==
  Cardinality({q \in InputBullets :
                 /\ q[1] < p[1] \/ (q[1] = p[1] /\ q[2] < p[2])
                 /\ BulletChanged(q)})

\* The bullet with template number t (from 0) filled with the keyword and
\* the metric and added to it: in front of its final period, lower-cased and
\* without a period of its own, or after a space.
WithTemplate(bullet, t, keyword, metric) ==
  LET phrase == replace(replace(INJECTION_TEMPLATES[t + 1], KwPlaceholder, keyword),
                        MetricPlaceholder, metric)
      lower  == toLowerCase(phrase)
  IN  IF endsWith(bullet, <<".">>)
        THEN SubSeq(bullet, 1, Len(bullet) - 1) \o <<",", " ">>
             \o (IF endsWith(lower, <<".">>) THEN SubSeq(lower, 1, Len(lower) - 1) ELSE lower)
             \o <<".">>
        ELSE bullet \o <<" ">> \o phrase

\* C29: in any run bulletsModified <= 5, newBulletsCreated <= 1 and so
\* totalInjections <= 7, and the k-th modified bullet, counted from 0 across
\* all entries, is written with template k mod 6 (filled with the keyword
\* recorded for that injection and one of the metrics).
C29_InjectionBounds ==
  Injected =>
    /\ result.stats.bulletsModified <= 5
    /\ result.stats.newBulletsCreated <= 1
    /\ result.stats.totalInjections <= 7
    /\ \A p \in InputBullets :
         BulletChanged(p) =>
           /\ InjectionsBefore(p) < Len(ExperienceInjections)
           /\ \E m \in DOMAIN METRIC_TEMPLATES :
                heap[result.cv].experience[p[1]].bullets[p[2]]
                  = WithTemplate(heap[args.cv].experience[p[1]].bullets[p[2]],
                                 ChangedBefore(p) % 6,
                                 ExperienceInjections[InjectionsBefore(p) + 1],
                                 METRIC_TEMPLATES[m])

\* A run that reached every bound: five bullets modified, more left alone,
\* and the new bullet.
C29_Witness ==
  /\ Injected
  /\ result.stats.bulletsModified = 5
  /\ result.stats.newBulletsCreated = 1
  /\ result.stats.totalInjections = 7
  /\ Cardinality(InputBullets) > 6

\* The keywords of the call without the low-priority ones, and the run of
\* injectKeywords on them, everything else the same.
WithoutLowPriority == SelectSeq(args.keywords, LAMBDA k : k.priority # "low")

RunWithoutLowPriority ==
  injectKeywords(<<heap[args.cv]>>, 1, WithoutLowPriority, args.options,
                 ConcurrentRandom, CONFIG, result.stats.timing)

\* C30: injectKeywords leaves summary, education, certifications,
\* skills.soft, every personal field but location and every entry's title,
\* company and dates as the input has them; skills.hard only gains entries
\* at its end, a bullet is kept or extended, only the first entry can gain
\* one bullet, and the location is the input's or the override; low-priority
\* keywords change neither the Document nor the stats.
C30_InjectionFrame ==
  Injected =>
    LET in  == heap[args.cv]
        out == heap[result.cv]
        alone == RunWithoutLowPriority
    IN  /\ out.summary = in.summary
        /\ out.education = in.education
        /\ out.certifications = in.certifications
        /\ out.skills.soft = in.skills.soft
        /\ DOMAIN out = DOMAIN in
        /\ DOMAIN out.skills = DOMAIN in.skills
        /\ DOMAIN out.personal = DOMAIN in.personal
        /\ \A f \in DOMAIN in.personal \ {"location"} : out.personal[f] = in.personal[f]
        /\ \/ out.personal.location = in.personal.location
           \/ /\ "locationOverride" \in DOMAIN args.options
              /\ out.personal.location = args.options.locationOverride
        /\ Len(out.skills.hard) >= Len(in.skills.hard)
        /\ SubSeq(out.skills.hard, 1, Len(in.skills.hard)) = in.skills.hard
        /\ Len(out.experience) = Len(in.experience)
        /\ \A e \in DOMAIN in.experience :
             /\ [out.experience[e] EXCEPT !.bullets = <<>>]
                  = [in.experience[e] EXCEPT !.bullets = <<>>]
             /\ Len(out.experience[e].bullets) - Len(in.experience[e].bullets)
                  \in (IF e = 1 THEN {0, 1} ELSE {0})
             /\ \A b \in DOMAIN in.experience[e].bullets :
                  Extends(out.experience[e].bullets[b], in.experience[e].bullets[b])
        /\ alone.stats = result.stats
        /\ alone.heap[alone.cv] = out

\* A run with low-priority keywords and an override that added skills,
\* extended a bullet and added the new bullet.
C30_Witness ==
  /\ Injected
  /\ WithoutLowPriority # args.keywords
  /\ heap[result.cv].personal.location # heap[args.cv].personal.location
  /\ result.stats.skillsAdded > 0
  /\ result.stats.bulletsModified > 0
  /\ result.stats.newBulletsCreated = 1
  /\ heap[args.cv].summary # <<>>

\* The lines that are summary headings, and the stated summary: the trimmed
\* non-blank lines after the last summary heading, up to the next heading or
\* the end of the text, joined by one space.
SummaryHeadings ==
  {i \in DOMAIN TextLines : test(sectionPatterns.summary, Trimmed(i))}

StatedSummary ==
  IF SummaryHeadings = {} THEN <<>>
  ELSE LET h == Max(SummaryHeadings)
           after == {j \in DOMAIN TextLines : j > h /\ IsHeading(j)}
           last == IF after = {} THEN Len(TextLines) ELSE Min(after) - 1
       IN  join(SelectSeq([k \in 1..(last - h) |-> Trimmed(h + k)],
                          LAMBDA l : l # <<>>),
                <<" ">>)

\* C31: after parsing, document.summary is the space-joined trimmed
\* non-blank content lines that follow the last summary heading up to the
\* next section heading or the end of the input, and holds the text of no
\* section-heading line.
C31_SummaryContent ==
  (pc = "done" /\ result.cv # null) => result.cv.summary = StatedSummary

\* The bullets of the returned Document that injectKeywords modified or
\* created.
InjectedBullets ==
  {p \in OutputBullets : p \in InputBullets => BulletChanged(p)}

\* C32: every bullet that injectKeywords modified or created is a bullet
\* line of the plain text that exportToDocxText renders from the injected
\* Document, however many bullets an entry has.
C32_InjectedBulletsRendered ==
  (Injected /\ pc = "done") =>
     \A p \in InjectedBullets :
        arrayIncludes(split(result.text, {"\n"}),
                      BulletGlyph \o <<" ">> \o heap[result.cv].experience[p[1]].bullets[p[2]])

\* C33: every keyword listed in stats.keywordsCovered occurs, ignoring case,
\* in the plain text rendered from the injected Document, so a successful
\* fullInjectionPipeline lists every covered keyword in matched and none in
\* missing.
C33_CoveredKeywordsMatched ==
  (pc = "done" /\ "success" \in DOMAIN result /\ result.success) =>
     \A i \in DOMAIN result.stats.keywordsCovered :
        LET kw == result.stats.keywordsCovered[i]
        IN  /\ includes(toLowerCase(result.cvText), toLowerCase(kw))
            /\ arrayIncludes(result.matched, kw)
            /\ ~arrayIncludes(result.missing, kw)

\* The first MAX_HIGH_PRIO_SKILLS high-priority keywords of the normalized
\* list of the call.
FirstHighKeywords ==
  LET high == highPrio(parseKeywordsToJSON(args.keywords))
  IN  [i \in 1..Min({Len(high), CONFIG.MAX_HIGH_PRIO_SKILLS}) |-> high[i].keyword]

\* C34: after a successful fullInjectionPipeline run each of the first
\* MAX_HIGH_PRIO_SKILLS high-priority keywords is, up to case, an entry of
\* skills.hard of the returned Document, the text holds the SKILLS heading
\* followed by the line of all the skills, and the keyword is in matched,
\* whatever the parsed Document holds.
C34_FirstHighKeywordsMatched ==
  (pc = "done" /\ "success" \in DOMAIN result /\ result.success
     /\ FirstHighKeywords # <<>>) =>
     LET hard  == heap[result.cvJSON].skills.hard
         lines == split(result.cvText, {"\n"})
     IN  /\ \E l \in 1..(Len(lines) - 1) :
               /\ lines[l] = <<"S","K","I","L","L","S">>
               /\ lines[l + 1] = join(hard, <<",", " ">>)
         /\ \A i \in DOMAIN FirstHighKeywords :
               /\ \E s \in DOMAIN hard :
                    toLowerCase(hard[s]) = toLowerCase(FirstHighKeywords[i])
               /\ arrayIncludes(result.matched, FirstHighKeywords[i])

\* A successful run on a text without skills and without experience, with
\* more than MAX_HIGH_PRIO_SKILLS high-priority keywords of which a later
\* one is missing.
C34_Witness ==
  /\ pc = "done" /\ "success" \in DOMAIN result /\ result.success
  /\ args.cvText = NameLine
  /\ Len(FirstHighKeywords) = CONFIG.MAX_HIGH_PRIO_SKILLS
  /\ result.missing # <<>>
  /\ Len(heap[result.cvJSON].skills.hard) < CONFIG.MAX_HIGH_PRIO_SKILLS

\* The normalized keyword list of the call, as texts.
NormalizedKeywords ==
  LET keywordsJSON == parseKeywordsToJSON(args.keywords)
  IN  [i \in DOMAIN keywordsJSON |-> keywordsJSON[i].keyword]

\* C35: in every successful fullInjectionPipeline result matched and missing
\* partition the normalized keyword list: some set of positions gives
\* matched and the other positions give missing, both in keyword order, so
\* the lengths add up to the number of keywords; and no text is in both.
C35_MatchedMissingPartition ==
  (pc = "done" /\ "success" \in DOMAIN result /\ result.success) =>
     /\ \E keep \in SUBSET DOMAIN NormalizedKeywords :
          /\ result.matched = Pick(NormalizedKeywords, keep)
          /\ result.missing = Pick(NormalizedKeywords, DOMAIN NormalizedKeywords \ keep)
     /\ Len(result.matched) + Len(result.missing) = Len(NormalizedKeywords)
     /\ \A i \in DOMAIN result.matched :
          ~arrayIncludes(result.missing, result.matched[i])

\* A successful run in which one text is matched twice, another is missing
\* twice, and a missing keyword comes before a matched one.
C35_Witness ==
  /\ pc = "done" /\ "success" \in DOMAIN result /\ result.success
  /\ \E i, j \in DOMAIN result.matched : i < j /\ result.matched[i] = result.matched[j]
  /\ \E i, j \in DOMAIN result.missing : i < j /\ result.missing[i] = result.missing[j]
  /\ \E i, j \in DOMAIN NormalizedKeywords :
       /\ i < j
       /\ arrayIncludes(result.missing, NormalizedKeywords[i])
       /\ arrayIncludes(result.matched, NormalizedKeywords[j])

\* Bullet b of entry e in the input and in the two returned Documents.
InputBullet(p) == heap[args.cv].experience[p[1]].bullets[p[2]]

FirstBullet(p) == heap[result.cv].experience[p[1]].bullets[p[2]]

SecondBullet(p) == heap[result.again.cv].experience[p[1]].bullets[p[2]]

\* Two texts that differ at most in a metric phrase at their end.
SameUpToFinalMetric(a, b) ==
  \E m1, m2 \in DOMAIN METRIC_TEMPLATES :
    /\ endsWith(a, METRIC_TEMPLATES[m1])
    /\ endsWith(b, METRIC_TEMPLATES[m2])
    /\ SubSeq(a, 1, Len(a) - Len(METRIC_TEMPLATES[m1]))
         = SubSeq(b, 1, Len(b) - Len(METRIC_TEMPLATES[m2]))

\* C36: two injectKeywords runs on the same Document, keywords and options
\* return the same counters, the same keywordsCovered and the same
\* skills.hard whatever metrics are drawn; they change the same bullets,
\* each with the same keyword and the same template, and add the same new
\* bullet up to its metric; nothing else differs between the two Documents.
C36_DeterministicUpToMetric ==
  pc = "done" =>
    LET one == heap[result.cv]
        two == heap[result.again.cv]
    IN  /\ [result.stats EXCEPT !.timing = 0] = [result.again.stats EXCEPT !.timing = 0]
        /\ one.skills.hard = two.skills.hard
        /\ [one EXCEPT !.experience = <<>>] = [two EXCEPT !.experience = <<>>]
        /\ Len(one.experience) = Len(two.experience)
        /\ \A e \in DOMAIN one.experience :
             /\ [one.experience[e] EXCEPT !.bullets = <<>>]
                  = [two.experience[e] EXCEPT !.bullets = <<>>]
             /\ Len(one.experience[e].bullets) = Len(two.experience[e].bullets)
        /\ \A p \in InputBullets :
             IF BulletChanged(p)
               THEN \E m1, m2 \in DOMAIN METRIC_TEMPLATES :
                      /\ FirstBullet(p)
                           = WithTemplate(InputBullet(p), ChangedBefore(p) % 6,
                                          ExperienceInjections[InjectionsBefore(p) + 1],
                                          METRIC_TEMPLATES[m1])
                      /\ SecondBullet(p)
                           = WithTemplate(InputBullet(p), ChangedBefore(p) % 6,
                                          ExperienceInjections[InjectionsBefore(p) + 1],
                                          METRIC_TEMPLATES[m2])
               ELSE SecondBullet(p) = InputBullet(p)
        /\ \A p \in OutputBullets \ InputBullets :
             SameUpToFinalMetric(FirstBullet(p), SecondBullet(p))

\* Two runs that drew different metrics: the Documents differ, in a changed
\* bullet and in the new bullet.
C36_Witness ==
  /\ pc = "done"
  /\ \E p \in InputBullets : FirstBullet(p) # SecondBullet(p)
  /\ \E p \in OutputBullets \ InputBullets : FirstBullet(p) # SecondBullet(p)
  /\ result.stats.bulletsModified > 1
  /\ result.stats.skillsAdded > 0

\* A decimal number read from bytes, with or without a minus sign.
RECURSIVE ReadDigits(_, _)
ReadDigits(b, n) ==
  IF n = 0 THEN 0 ELSE 10 * ReadDigits(b, n - 1) + (b[n] - 48)

ReadNumber(b) ==
  IF b # <<>> /\ b[1] = 45 THEN 0 - ReadDigits(Tail(b), Len(b) - 1)
  ELSE ReadDigits(b, Len(b))

\* Text item k of the PDF as its content stream shows it: the string of its
\* Tj instruction, read as a PDF string, and the y operand of its Td.
PdfShownText(k) ==
  LET line == PdfShowLines[k]
      open == Min({i \in DOMAIN line : line[i] = 40})
  IN  ReadPdfString(line, open + 1).text

PdfShownY(k) == ReadNumber(split(PdfShowLines[k], {32})[6])

\* C37: the PDF carries what the plain text carries: every line that
\* exportToDocxText renders (blank lines aside) is the text of an item of
\* the PDF content stream, the items coming in the order of the lines, and
\* no item is placed above the item before it.
C37_PdfMirrorsText ==
  pc = "done" =>
    /\ IsSubsequence([k \in DOMAIN PlainLines |-> encode(PlainLines[k])],
                     [k \in DOMAIN PdfShowLines |-> PdfShownText(k)])
    /\ \A k \in 2..Len(PdfShowLines) : PdfShownY(k) <= PdfShownY(k - 1)

\* C38: whenever attachFilesToForm returns with cvAttached and coverAttached
\* both true, the CV file and the cover-letter file are held by two
\* different file inputs of the page, and the input holding the CV has no
\* cover-letter pattern in its context.
C38_TwoInputsHoldTheFiles ==
  (pc = "done" /\ result.cvAttached /\ result.coverAttached) =>
     \E i, j \in DOMAIN heap.document :
        /\ i # j
        /\ heap.document[i].files = <<args.cvFile>>
        /\ heap.document[j].files = <<args.coverFile>>
        /\ \A c \in DOMAIN COVER_PATTERNS :
             ~includes(getFieldContext(heap.document[i]), COVER_PATTERNS[c])

\* The files startAttachmentMonitor was given.
SuppliedFiles == {args.cvFile, args.coverFile} \ {null}

\* Some file input of the page h.document holds exactly the file f.
HeldOnPage(h, f) == \E i \in DOMAIN h.document : h.document[i].files = <<f>>

\* A step taken after maxDuration has elapsed puts no supplied file into a
\* file input and writes no console line.
NoAttemptAfterMaxDuration ==
  heap.elapsed > args.maxDuration =>
    /\ console' = console
    /\ \A i \in DOMAIN heap'.document :
         \A f \in SuppliedFiles :
           heap'.document[i].files = <<f>> =>
             i \in DOMAIN heap.document /\ heap.document[i].files = <<f>>

\* A step after which every supplied file is held by a file input has made
\* no requestAnimationFrame call.
NoFrameOnceAllAttached ==
  (pc' = "event loop" /\ \A f \in SuppliedFiles : HeldOnPage(heap', f)) =>
     heap'.nextFrame = heap.nextFrame

\* The console reports at most one attachment of each supplied file.
AttachedAtMostOnce ==
  \A f \in SuppliedFiles :
    Cardinality({k \in DOMAIN console :
                   console[k] = [message |-> "[FileAttacher] Attached:",
                                 name |-> f.name]}) <= 1

\* C39: in every run of FileAttacher.startAttachmentMonitor, under every
\* order of the animation-frame, mutation-observer and timeout callbacks, no
\* step after maxDuration has elapsed attaches a file, no
\* requestAnimationFrame call is made by a step after which every supplied
\* file (the CV, the cover letter, or both) is attached, and each supplied
\* file is attached at most once.
C39_MonitorStopsWhenAttached ==
  [][NoAttemptAfterMaxDuration /\ NoFrameOnceAllAttached /\ AttachedAtMostOnce']_vars

====
